---- MODULE Spec2Model ----
(***************************************************************************)
(* LoadSofaFile (makemhr's SOFA loader): header checks, layout, the        *)
(* measurement assignment task, the completeness validation, the onset     *)
(* task and the magnitude worker pool.                                     *)
(*                                                                         *)
(* Units.  Angles are integers in millidegrees, distances integers in      *)
(* 1/10000 of a unit, times integers in ticks of 1/TicksPerSecond second.  *)
(* Arrays keep the code's 0-based indices: an array of n elements is a     *)
(* function on 0..n-1.  A span is a record [off, len] into mHrirsBase; the *)
(* empty span has len = 0.                                                 *)
(***************************************************************************)
EXTENDS Integers, Sequences, FiniteSets, TLC

\* ------------------------------------------------------------------ bounds
\* Number of measurements (M) of the largest source file.
MaxM == 3
\* Largest configured worker thread count.
MaxThreads == 2
\* filter calls in one behaviour, and sublists the allocator can still get
MaxCalls == 3
MaxAvail == 2
\* threads that call the filter functions at the same time
MaxCallers == 2
\* bytes of the Solaris backend's mix buffer
MaxBuffer == 2

\* ------------------------------------------------------- program constants
OnsetRateMultiple == 10
\* 89.999 degrees
PoleThreshold == 89999
\* 0.1 degree
EvTolerance == 100
AzTolerance == 100
\* 0.001 distance units
DistTolerance == 10
FullCircle == 360000
HalfCircle == 180000
RightAngle == 90000
MAX_FD_COUNT == 16
\* The accepted sample rates, in the unit of Rates (16 kHz).
MIN_RATE == 2
MAX_RATE == 6
\* hData->mRadius = 0.09, in centimetres
DefaultRadius == 9
\* al/filter.cpp: slots of a sublist, the limit on sublists, bits of an ID
SubListSize == 64
MaxSubLists == 33554432
IdBits == 32

\* --------------------------------------------------------------- helpers
Abs(x) == IF x < 0 THEN -x ELSE x
Min(a, b) == IF a < b THEN a ELSE b
Max(a, b) == IF a > b THEN a ELSE b
\* std::round of the non-negative rational num/den (half away from zero)
RoundDiv(num, den) == (2 * num + den) \div (2 * den)
\* std::ceil of the non-negative rational num/den
CeilDiv(num, den) == (num + den - 1) \div den

RECURSIVE SumTo(_, _)
\* f[0] + ... + f[n-1]
SumTo(f, n) == IF n = 0 THEN 0 ELSE f[n - 1] + SumTo(f, n - 1)

Size(arr) == Cardinality(DOMAIN arr)
EmptySpan == [off |-> 0, len |-> 0]
NoSlot == [fi |-> -1, ei |-> -1, ai |-> -1]
\* a diagnostic line without coordinates
Diag(msg) == [msg |-> msg, fi |-> -1, ei |-> -1, ai |-> -1]

\* ----------------------------------------------------------------- state
VARIABLES
    sofaHrtf,      \* the loaded file: E, R, N, M, rate (DataSamplingRate's
                   \* value) and the attribute lists srateAttrs, delayAttrs,
                   \* irAttrs of DataSamplingRate, DataDelay and DataIR
    args,          \* numThreads, fftSize, truncSize, outRate, chanMode
    env,           \* threads: how many threads the system lets the process create
    pc,            \* LoadSofaFile's position (the calling thread)
    retval,        \* LoadSofaFile's return value: "none", "true", "false"
    diag,          \* the diagnostic printed on a failure
    mChannelType, mIrPoints, mFftSize, mIrSize, mIrRate, mIrCount, mRadius,
    mFds,          \* the field / ring / slot tree
    mHrirsBase,    \* the flat storage
    taskpc,        \* the background task: "idle", "begin", "body", "ready"
    taskres,       \* the value the task's future holds
    si,            \* load_proc's loop index
    aer,           \* load_proc's current position (after mysofa_c2s)
    loaded_count,
    assigned,      \* history: slot index -> the measurements copied into it
    vfi,           \* the validation loop's field index
    oi,            \* onset_proc's position in its iteration order
    hrir_total, hrir_done,
    onsets,        \* history: (slot index, channel) -> onset offsets added
    mIrs,          \* MagCalculator's work list
    mCurrent, mDone,
    created,       \* threads emplaced in thrds
    joined,        \* threads joined
    wpc, idx,      \* per worker: position and local idx
    claimCount,    \* history: work index -> successful CAS idx -> idx+1
    procCount,     \* history: work index -> CalcHrirMagnitude calls
    preMag,        \* history: mHrirsBase when the work list was built
    FilterList,    \* al/filter.cpp: the device's sublists of filter slots
    mFilterNames,  \* the device's debug names: records [id, name]
    call,          \* the last filter call: its arguments and what it gave
    calls,         \* how many filter calls were made
    ub,            \* a filter call has run into undefined behaviour
    listSize,      \* filter IDs in 32 bits: the number of sublists
    idCall,        \* the last step on IDs: what it was given and gave
    FilterLock,    \* the device's FilterLock: its owner, 0 when free
    thr,           \* per calling thread: the filter functions it is in
    relock,        \* a thread has locked FilterLock while holding it
    mKillNow,      \* alc/backends/solaris.cpp: SolarisBackend's kill flag
    mThread,       \* "empty" or "joinable"
    Connected,     \* the device's Connected flag
    mpc,           \* the mixer thread's position in mixerProc
    buffer,        \* bytes of the rendered update still to write
    cpc,           \* the position of the thread that calls start and stop
    drains,        \* history: AUDIO_DRAIN ioctls since the last start
    phase,         \* history: "never", "started", "stopped"
    lastStop,      \* history: what the last stop() that returned did
    terminated     \* std::terminate was called

hvars == <<mChannelType, mIrPoints, mFftSize, mIrSize, mIrRate, mIrCount,
           mRadius>>
gvars == <<mFds, mHrirsBase>>
tvars == <<taskpc, taskres, si, aer, loaded_count, assigned>>
ovars == <<oi, hrir_total, hrir_done, onsets>>
mvars == <<mIrs, mCurrent, mDone, created, joined, wpc, idx, claimCount,
           procCount, preMag>>
ivars == <<sofaHrtf, args, env>>
fvars == <<FilterList, mFilterNames, call, calls, ub>>
lvars == <<ivars, pc, retval, diag, vfi, hvars, gvars, tvars, ovars, mvars>>
nvars == <<listSize, idCall>>
kvars == <<FilterLock, thr, relock>>
svars == <<mKillNow, mThread, Connected, mpc, buffer, cpc, drains, phase,
           lastStop, terminated>>
\* the variables of the programs after the loader and the filter calls
xvars == <<nvars, kvars, svars>>
vars == <<lvars, fvars, xvars>>

\* ---------------------------------------------------------------- inputs
\* Sample rates of the source files and the requested output rates.
Rates == {2, 3}
RateProduct == 2 * 3
TicksPerSecond == OnsetRateMultiple * RateProduct
Workers == 0 .. MaxThreads - 1

\* DataIR.values: M*R*N samples, all different and non-zero
DataIR(j) == j + 1
\* DataDelay.values, in samples
DataDelay(j) == 2 * j + 1

\* The positions a source file's measurements are drawn from, as mysofa_c2s
\* returns them: azimuth, elevation, radius.
SourcePositions ==
    { [az |-> 0,      el |-> 0,      r |-> 10000],
      [az |-> 180000, el |-> 0,      r |-> 10000],
      [az |-> 40,     el |-> 60,     r |-> 10003],
      [az |-> 0,      el |-> 90000,  r |-> 10000],
      [az |-> 123000, el |-> 89999,  r |-> 10000],
      [az |-> 123000, el |-> 89998,  r |-> 10000],
      [az |-> 77000,  el |-> -90000, r |-> 10000],
      [az |-> 90000,  el |-> 0,      r |-> 10000],
      [az |-> 0,      el |-> 45000,  r |-> 10000],
      [az |-> 0,      el |-> 0,      r |-> 15000],
      [az |-> 0,      el |-> 90000,  r |-> 20000],
      [az |-> -60000, el |-> -89999, r |-> 20000] }

\* aer outside an iteration of load_proc's loop
NoPosition == [az |-> 0, el |-> 0, r |-> 0]

Arr1(a) == [i \in {0} |-> a]
Arr2(a, b) == [i \in {0, 1} |-> IF i = 0 THEN a ELSE b]
Arr3(a, b, c) == [i \in {0, 1, 2} |-> IF i = 0 THEN a ELSE IF i = 1 THEN b ELSE c]

\* What GetCompatibleLayout can return: per field its distance, ring count,
\* start ring and per-ring azimuth counts.
Layouts ==
    { Arr1([mDistance |-> 10000, mEvCount |-> 3, mEvStart |-> 0,
            mAzCounts |-> Arr3(1, 2, 1)]),
      Arr1([mDistance |-> 10000, mEvCount |-> 3, mEvStart |-> 1,
            mAzCounts |-> Arr3(0, 2, 1)]),
      Arr2([mDistance |-> 10000, mEvCount |-> 2, mEvStart |-> 0,
            mAzCounts |-> Arr2(1, 1)],
           [mDistance |-> 20000, mEvCount |-> 2, mEvStart |-> 0,
            mAzCounts |-> Arr2(1, 1)]),
      [i \in 0 .. MAX_FD_COUNT |->
           [mDistance |-> 10000 * (i + 1), mEvCount |-> 2, mEvStart |-> 0,
            mAzCounts |-> Arr2(1, 1)]] }

\* ------------------------------------------------------- pure functions
Channels(chanType) == IF chanType = "CT_STEREO" THEN 2 ELSE 1

\* Faulty variant: the channel stride is one slot instead of mIrCount slots.
SlotSpan_ChannelStride(irCount, irSize, index, ti) ==
    [off |-> (ti + index) * irSize, len |-> irSize]
\* hrirs.subspan((mIrCount*ti + mIndex) * mIrSize, mIrSize)
SlotSpan(irCount, irSize, index, ti) ==
    [off |-> (irCount * ti + index) * irSize, len |-> irSize]

InSpan(k, sp) == sp.off <= k /\ k < sp.off + sp.len

\* Faulty variant: no pole correction.
AdjustAz_NoPole(p) == (FullCircle - p.az) % FullCircle
\* The azimuth after the pole correction and the change of orientation.
AdjustAz(p) ==
    IF Abs(p.el) >= PoleThreshold THEN 0
    ELSE (FullCircle - p.az) % FullCircle

\* find_if over mFds by distance: the first matching field, or -1
FindField(fds, r) ==
    LET m == {fi \in DOMAIN fds : Abs(r - fds[fi].mDistance) < DistTolerance}
    IN  IF m = {} THEN -1 ELSE CHOOSE fi \in m : \A fj \in m : fi <= fj

\* ei = round((90 + el) / evscale), evscale = 180 / (evs - 1)
EvIndex(el, evs) == RoundDiv((RightAngle + el) * (evs - 1), HalfCircle)
\* (ef - ei) * evscale, times (evs - 1)
EvResidual(el, evs) ==
    (RightAngle + el) * (evs - 1) - EvIndex(el, evs) * HalfCircle
EvRejected(el, evs) == Abs(EvResidual(el, evs)) >= EvTolerance * (evs - 1)

\* ai = round(az / azscale), azscale = 360 / azs, before the wrap
AzIndex(az, azs) == RoundDiv(az * azs, FullCircle)
\* (af - ai) * azscale, times azs
AzResidual(az, azs) == az * azs - AzIndex(az, azs) * FullCircle
\* Faulty variant: no azimuth tolerance.
AzRejected_Never(az, azs) == FALSE
\* if(std::abs(af) >= 0.1) continue;
AzRejected(az, azs) == Abs(AzResidual(az, azs)) >= AzTolerance * azs

\* The slot a measurement at position p snaps to, or NoSlot when it is
\* dropped (no field, elevation residual, azimuth residual).
SnapSlot(fds, p) ==
    LET fi == FindField(fds, p.r)
    IN  IF fi = -1 THEN NoSlot
        ELSE LET evs == Size(fds[fi].mEvs)
                 ei == EvIndex(p.el, evs)
             IN  IF EvRejected(p.el, evs) THEN NoSlot
                 ELSE LET azs == Size(fds[fi].mEvs[ei].mAzs)
                          az == AdjustAz(p)
                      IN  IF AzRejected(az, azs) THEN NoSlot
                          ELSE [fi |-> fi, ei |-> ei,
                                ai |-> AzIndex(az, azs) % azs]

\* PPhaseResampler::process(src of n samples at srcRate -> k-th output at
\* dstRate): the source sample nearest before the output instant, and
\* silence after the source's end.
Resample(src, n, srcRate, dstRate, k) ==
    LET j == (k * srcRate) \div dstRate
    IN  IF j < n THEN src[j] ELSE 0

\* Faulty variant: the receiver count left out of the source offset.
SourceIr_NoStride(s, ti, R, N) == [k \in 0 .. N - 1 |-> DataIR((s + ti) * N + k)]
\* the source impulse of measurement s, channel ti: irValues.subspan(...)
SourceIr(s, ti, R, N) == [k \in 0 .. N - 1 |-> DataIR((s * R + ti) * N + k)]

Resampling(outRate, irRate) == outRate /= 0 /\ outRate /= irRate

\* The k-th sample (k < mIrSize) the load writes to a region, or leaves
\* there, for measurement s and channel ti.
LoadedSample(s, ti, k, R, N, outRate, irRate) ==
    IF Resampling(outRate, irRate)
    THEN Resample(SourceIr(s, ti, R, N), N, irRate, outRate, k)
    ELSE IF k < N THEN SourceIr(s, ti, R, N)[k] ELSE 0

\* delayValues[j] / mIrRate, in ticks
DelayOf(j, irRate) == DataDelay(j) * (TicksPerSecond \div irRate)

\* ------------------------------------------------- header attribute lists
\* A MYSOFA_ATTRIBUTE list is a sequence of [name, value]; Null is the null
\* pointer the scans start from.
Null == "<null>"
Attr(n, v) == [name |-> n, value |-> v]

RECURSIVE SrateScan(_, _, _, _)
RECURSIVE SrateScan_Strict(_, _, _, _)
\* Faulty variant: an attribute that is neither DIMENSION_LIST nor Units
\* ends the scan with an error.
SrateScan_Strict(attrs, i, dim, units) ==
    IF i > Len(attrs) THEN [err |-> "ok", dim |-> dim, units |-> units]
    ELSE IF attrs[i].name = "DIMENSION_LIST"
         THEN IF dim /= Null
              THEN [err |-> "Duplicate SampleRate.DIMENSION_LIST",
                    dim |-> dim, units |-> units]
              ELSE SrateScan_Strict(attrs, i + 1, attrs[i].value, units)
    ELSE IF attrs[i].name = "Units"
         THEN IF units /= Null
              THEN [err |-> "Duplicate SampleRate.Units",
                    dim |-> dim, units |-> units]
              ELSE SrateScan_Strict(attrs, i + 1, dim, attrs[i].value)
    ELSE [err |-> "Unexpected sample rate attribute",
          dim |-> dim, units |-> units]
\* GetSampleRate's loop (lines 106-130) from attribute i on: the duplicate
\* that ends it, or the dimension and unit strings it leaves.
SrateScan(attrs, i, dim, units) ==
    IF i > Len(attrs) THEN [err |-> "ok", dim |-> dim, units |-> units]
    ELSE IF attrs[i].name = "DIMENSION_LIST"
         THEN IF dim /= Null
              THEN [err |-> "Duplicate SampleRate.DIMENSION_LIST",
                    dim |-> dim, units |-> units]
              ELSE SrateScan(attrs, i + 1, attrs[i].value, units)
    ELSE IF attrs[i].name = "Units"
         THEN IF units /= Null
              THEN [err |-> "Duplicate SampleRate.Units",
                    dim |-> dim, units |-> units]
              ELSE SrateScan(attrs, i + 1, dim, attrs[i].value)
    ELSE SrateScan(attrs, i + 1, dim, units)

\* The diagnostic GetSampleRate returns 0 with, or "ok" (lines 100-160).
SampleRateError(sofa) ==
    LET sc == SrateScan(sofa.srateAttrs, 1, Null, Null)
    IN  CASE sc.err /= "ok" -> sc.err
          [] sc.dim = Null -> "Missing sample rate dimensions"
          [] sc.dim /= "I" -> "Unsupported sample rate dimensions"
          [] sc.units = Null -> "Missing sample rate unit type"
          [] sc.units /= "hertz" -> "Unsupported sample rate unit type"
          [] sofa.rate < MIN_RATE \/ sofa.rate > MAX_RATE ->
                "Sample rate out of range"
          [] OTHER -> "ok"

GetSampleRate(sofa) == IF SampleRateError(sofa) = "ok" THEN sofa.rate ELSE 0

RECURSIVE DimScan(_, _, _)
RECURSIVE DimScan_KeepLast(_, _, _)
\* Faulty variant: a second DIMENSION_LIST replaces the first.
DimScan_KeepLast(attrs, i, dim) ==
    IF i > Len(attrs) THEN dim
    ELSE IF attrs[i].name = "DIMENSION_LIST"
         THEN DimScan_KeepLast(attrs, i + 1, attrs[i].value)
    ELSE DimScan_KeepLast(attrs, i + 1, dim)

\* The loops of PrepareDelay (172-187) and CheckIrData (207-222) from
\* attribute i on: "dup" at a second DIMENSION_LIST, else the dimension
\* string they leave.
DimScan(attrs, i, dim) ==
    IF i > Len(attrs) THEN dim
    ELSE IF attrs[i].name = "DIMENSION_LIST"
         THEN IF dim /= Null THEN "dup"
              ELSE DimScan(attrs, i + 1, attrs[i].value)
    ELSE DimScan(attrs, i + 1, dim)

\* PrepareDelay: the delay type, or "nullopt" (lines 167-200)
\* Faulty variant: a delay array without DIMENSION_LIST is refused.
PrepareDelay_MissingFails(sofa) ==
    LET dim == DimScan(sofa.delayAttrs, 1, Null)
    IN  CASE dim = "dup" -> "nullopt"
          [] dim = Null -> "nullopt"
          [] dim = "I,R" -> "I_R"
          [] dim = "M,R" -> "M_R"
          [] OTHER -> "nullopt"

PrepareDelay(sofa) ==
    LET dim == DimScan(sofa.delayAttrs, 1, Null)
    IN  CASE dim = "dup" -> "nullopt"
          [] dim = Null -> "None"
          [] dim = "I,R" -> "I_R"
          [] dim = "M,R" -> "M_R"
          [] OTHER -> "nullopt"

\* CheckIrData (lines 202-234)
CheckIrData(sofa) ==
    LET dim == DimScan(sofa.irAttrs, 1, Null)
    IN  dim /= "dup" /\ dim /= Null /\ dim = "M,R,N"

\* ------------------------------------------- filter slots (al/filter.cpp)
\* A sublist is a FreeMask (the set of its free bit positions) and an array
\* Filters of SubListSize slots; a slot holds an object only while its bit
\* is clear.
NoFilter ==
    [id |-> 0, type |-> "none", Gain |-> "none", GainHF |-> "none",
     HFReference |-> "none", GainLF |-> "none", LFReference |-> "none"]
NullFilter == [lidx |-> -1, slidx |-> -1]
Bits == 0 .. SubListSize - 1
MinOf(S) == CHOOSE x \in S : \A y \in S : x <= y
Push(list, x) ==
    [i \in 0 .. Size(list) |-> IF i < Size(list) THEN list[i] ELSE x]

\* std::accumulate of std::popcount(sublist.FreeMask), lines 105-107
FreeCount(list) ==
    SumTo([l \in DOMAIN list |-> Cardinality(list[l].FreeMask)], Size(list))

\* a sublist as line 114-116 makes it: every bit free, the slots raw
FreshSubList == [FreeMask |-> Bits, Filters |-> [b \in Bits |-> NoFilter]]

RECURSIVE GrowList(_, _, _, _)
\* the loop of lines 109-119; avail is the number of sublists the allocator
\* can still provide, after which allocate throws and catch(...) returns
\* false
GrowList(list, count, needed, avail) ==
    IF needed <= count THEN [ok |-> TRUE, list |-> list]
    ELSE IF Size(list) >= MaxSubLists THEN [ok |-> FALSE, list |-> list]
    ELSE IF avail = 0 THEN [ok |-> FALSE, list |-> list]
    ELSE GrowList(Push(list, FreshSubList), count + SubListSize, needed,
                  avail - 1)

\* Faulty variant: the free slots are counted as one sublist's worth per
\* sublist, used slots included.
EnsureFilters_CountsSublists(list, needed, avail) ==
    GrowList(list, Size(list) * SubListSize, needed, avail)
\* EnsureFilters (lines 102-124)
EnsureFilters(list, needed, avail) ==
    GrowList(list, FreeCount(list), needed, avail)

\* Faulty variant: a gain that alFilterf has set outlives the type.
InitFilterParams_KeepsGain(filter, type) ==
    [filter EXCEPT
       !.Gain = IF @ = "val" THEN @
                ELSE CASE type = "AL_FILTER_LOWPASS" -> "AL_LOWPASS_DEFAULT_GAIN"
                  [] type = "AL_FILTER_HIGHPASS" -> "AL_HIGHPASS_DEFAULT_GAIN"
                  [] type = "AL_FILTER_BANDPASS" -> "AL_BANDPASS_DEFAULT_GAIN"
                  [] OTHER -> "1.0f",
       !.GainHF = CASE type = "AL_FILTER_LOWPASS" -> "AL_LOWPASS_DEFAULT_GAINHF"
                    [] type = "AL_FILTER_BANDPASS" -> "AL_BANDPASS_DEFAULT_GAINHF"
                    [] OTHER -> "1.0f",
       !.HFReference = "LowPassFreqRef",
       !.GainLF = CASE type = "AL_FILTER_HIGHPASS" -> "AL_HIGHPASS_DEFAULT_GAINLF"
                    [] type = "AL_FILTER_BANDPASS" -> "AL_BANDPASS_DEFAULT_GAINLF"
                    [] OTHER -> "1.0f",
       !.LFReference = "HighPassFreqRef",
       !.type = type]
\* InitFilterParams (lines 61-100): the parameters of the type, written
\* as the source writes them (the AL_*_DEFAULT_* of efx.h, the frequency
\* references of filter.h and the literal 1.0f), then the type; the
\* parameter table mTypeVariant is the one of the type
InitFilterParams(filter, type) ==
    [filter EXCEPT
       !.Gain = CASE type = "AL_FILTER_LOWPASS" -> "AL_LOWPASS_DEFAULT_GAIN"
                  [] type = "AL_FILTER_HIGHPASS" -> "AL_HIGHPASS_DEFAULT_GAIN"
                  [] type = "AL_FILTER_BANDPASS" -> "AL_BANDPASS_DEFAULT_GAIN"
                  [] OTHER -> "1.0f",
       !.GainHF = CASE type = "AL_FILTER_LOWPASS" -> "AL_LOWPASS_DEFAULT_GAINHF"
                    [] type = "AL_FILTER_BANDPASS" -> "AL_BANDPASS_DEFAULT_GAINHF"
                    [] OTHER -> "1.0f",
       !.HFReference = "LowPassFreqRef",
       !.GainLF = CASE type = "AL_FILTER_HIGHPASS" -> "AL_HIGHPASS_DEFAULT_GAINLF"
                    [] type = "AL_FILTER_BANDPASS" -> "AL_BANDPASS_DEFAULT_GAINLF"
                    [] OTHER -> "1.0f",
       !.LFReference = "HighPassFreqRef",
       !.type = type]

\* some sublist has a free slot: std::ranges::find_if finds one
HasFree(list) == \E l \in DOMAIN list : list[l].FreeMask /= {}

\* Faulty variant: the ID is the slot number, without the 1 that avoids 0.
AllocFilter_NoOffset(list) ==
    LET lidx == MinOf({l \in DOMAIN list : list[l].FreeMask /= {}})
        slidx == MinOf(list[lidx].FreeMask)
        id == lidx * SubListSize + slidx
    IN  [list |-> [list EXCEPT
                     ![lidx].Filters[slidx] =
                         [InitFilterParams(NoFilter, "AL_FILTER_NULL")
                            EXCEPT !.id = id],
                     ![lidx].FreeMask = @ \ {slidx}],
         id |-> id]
\* AllocFilter (lines 127-144), on a list with a free slot: the first
\* sublist with a free bit, its lowest free bit, the object constructed
\* with the null type and the ID ((lidx<<6) | slidx) + 1, the bit cleared
AllocFilter(list) ==
    LET lidx == MinOf({l \in DOMAIN list : list[l].FreeMask /= {}})
        slidx == MinOf(list[lidx].FreeMask)
        id == (lidx * SubListSize + slidx) + 1
    IN  [list |-> [list EXCEPT
                     ![lidx].Filters[slidx] =
                         [InitFilterParams(NoFilter, "AL_FILTER_NULL")
                            EXCEPT !.id = id],
                     ![lidx].FreeMask = @ \ {slidx}],
         id |-> id]

RECURSIVE Generate(_, _, _)
\* std::ranges::generate(fids, AllocFilter(device)->id), line 385; with no
\* free slot AllocFilter dereferences the end iterator
Generate(list, n, ids) ==
    IF n = 0 THEN [list |-> list, ids |-> ids, ub |-> FALSE]
    ELSE IF ~HasFree(list) THEN [list |-> list, ids |-> ids, ub |-> TRUE]
    ELSE LET r == AllocFilter(list)
         IN  Generate(r.list, n - 1, Append(ids, r.id))

\* (id-1) >> 6 and (id-1) & 0x3f on an ALuint: 0 - 1 wraps to 2^IdBits - 1
SlotOf(id) ==
    IF id = 0
    THEN [lidx |-> 2 ^ (IdBits - 6) - 1, slidx |-> SubListSize - 1]
    ELSE [lidx |-> (id - 1) \div SubListSize, slidx |-> (id - 1) % SubListSize]

\* LookupFilter(std::nothrow, ...) (lines 159-171): the slot, or nullptr
LookupFilter(list, id) ==
    LET s == SlotOf(id)
    IN  IF s.lidx >= Size(list) THEN NullFilter
        ELSE IF s.slidx \in list[s.lidx].FreeMask THEN NullFilter
        ELSE s

\* Faulty variant: the name of the freed filter stays in the table
FreeFilter_KeepsName(st, p) ==
    LET id == st.list[p.lidx].Filters[p.slidx].id
        s == SlotOf(id)
        gone == [st.list EXCEPT ![p.lidx].Filters[p.slidx] = NoFilter]
    IN  [list |-> [gone EXCEPT ![s.lidx].FreeMask = @ \cup {s.slidx}],
         names |-> st.names,
         freed |-> Append(st.freed, id)]
\* FreeFilter (lines 146-157) on the object in slot p: its name erased, the
\* object destroyed, the bit of its ID set; freed is the history of the
\* IDs FreeFilter was called on
FreeFilter(st, p) ==
    LET id == st.list[p.lidx].Filters[p.slidx].id
        s == SlotOf(id)
        gone == [st.list EXCEPT ![p.lidx].Filters[p.slidx] = NoFilter]
    IN  [list |-> [gone EXCEPT ![s.lidx].FreeMask = @ \cup {s.slidx}],
         names |-> {nm \in st.names : nm.id /= id},
         freed |-> Append(st.freed, id)]

\* the first pass of alDeleteFilters (lines 406-408) throws
AnyInvalid(list, fids) ==
    \E i \in DOMAIN fids :
        fids[i] /= 0 /\ LookupFilter(list, fids[i]) = NullFilter

RECURSIVE DeleteEach_NoLookup(_, _, _)
\* Faulty variant: the second pass frees the slot of every non-zero ID
\* without asking whether it still holds a filter.
DeleteEach_NoLookup(st, fids, i) ==
    IF i > Len(fids) THEN st
    ELSE DeleteEach_NoLookup(IF fids[i] = 0 THEN st
                             ELSE FreeFilter(st, SlotOf(fids[i])),
                             fids, i + 1)
RECURSIVE DeleteEach(_, _, _)
\* the second pass (lines 411-415)
DeleteEach(st, fids, i) ==
    IF i > Len(fids) THEN st
    ELSE LET p == LookupFilter(st.list, fids[i])
         IN  DeleteEach(IF p = NullFilter THEN st ELSE FreeFilter(st, p),
                        fids, i + 1)

\* inputs of the filter calls
GenCounts == {-1, 0, 1, 2, 3}
IdPool == {0, 1, 2, SubListSize, SubListSize + 1, 3 * SubListSize}
DeleteInputs ==
    {[n |-> k, fids |-> << >>] : k \in {-1, 0}}
    \cup {[n |-> 1, fids |-> <<a>>] : a \in IdPool}
    \cup {[n |-> 2, fids |-> <<a, b>>] : a \in IdPool, b \in IdPool}
FilterTypes ==
    {"AL_FILTER_NULL", "AL_FILTER_LOWPASS", "AL_FILTER_HIGHPASS",
     "AL_FILTER_BANDPASS"}
TypeValues == FilterTypes \cup {"invalid"}
\* the values efx.h gives the names of the float parameters
Enum ==
    [AL_LOWPASS_GAIN |-> 1, AL_LOWPASS_GAINHF |-> 2,
     AL_HIGHPASS_GAIN |-> 1, AL_HIGHPASS_GAINLF |-> 2,
     AL_BANDPASS_GAIN |-> 1, AL_BANDPASS_GAINLF |-> 2,
     AL_BANDPASS_GAINHF |-> 3]
\* the parameters alFilterf is called with: the named ones and one more
FloatParams == 1 .. 4
\* the values alFilterf is called with: "val", a gain within the range of
\* every parameter that is no default, and "beyond", one outside it
FloatValues == {"val", "beyond"}
InRange == {"val"}
NoCall ==
    [op |-> "none", n |-> 0, fids |-> << >>, avail |-> 0, value |-> "none",
     raised |-> "AL_NO_ERROR", out |-> << >>, freed |-> << >>]

\* a device whose first sublist has all slots but the last in use, with
\* the IDs AllocFilter gave them
NearlyFull ==
    Push(<< >>,
         [FreeMask |-> {SubListSize - 1},
          Filters |-> [b \in Bits |->
                         IF b = SubListSize - 1 THEN NoFilter
                         ELSE [InitFilterParams(NoFilter, "AL_FILTER_NULL")
                                 EXCEPT !.id = b + 1]]])

\* a device without filters, or one with a nearly full sublist
FilterInit(lists) ==
    /\ FilterList \in lists
    /\ mFilterNames = {}
    /\ call = NoCall
    /\ calls = 0
    /\ ub = FALSE

\* --------------------------------- filter IDs as 32-bit unsigned values
\* An ALuint is kept as its two 16-bit halves, so that the arithmetic of
\* lines 138 and 162-163 is done in 32 bits whatever the value.
Half == 2 ^ (IdBits \div 2)
Zero32 == [hi |-> 0, lo |-> 0]
\* the 32 bits of a number below 2^31
FromNat(n) == [hi |-> n \div Half, lo |-> n % Half]

\* AllocFilter's ID (line 138), ((lidx<<6) | slidx) + 1 on unsigned ints:
\* the shift loses the bits beyond the 32nd, the addition wraps
MakeId(lidx, slidx) ==
    LET hi == (lidx \div (Half \div SubListSize)) % Half
        lo == (lidx % (Half \div SubListSize)) * SubListSize + slidx
    IN  IF lo = Half - 1 THEN [hi |-> (hi + 1) % Half, lo |-> 0]
        ELSE [hi |-> hi, lo |-> lo + 1]
\* LookupFilter's indices (lines 162-163), (id-1) >> 6 and (id-1) & 0x3f
\* on unsigned ints: the subtraction wraps
SlotOf32(id) ==
    LET v == IF id.lo = 0
             THEN [hi |-> (id.hi + Half - 1) % Half, lo |-> Half - 1]
             ELSE [hi |-> id.hi, lo |-> id.lo - 1]
    IN  [lidx |-> v.hi * (Half \div SubListSize) + v.lo \div SubListSize,
         slidx |-> v.lo % SubListSize]
\* LookupFilter's first test (lines 165-166): nullptr for a sublist index
\* at or beyond the list's size, else the slot (its FreeMask bit decides)
Lookup32(size, id) ==
    IF SlotOf32(id).lidx >= size THEN "nullptr" ELSE "slot"

\* the sizes a filter list is followed from: empty, one sublist, and the
\* two largest
ListSizes == {0, 1, MaxSubLists - 1, MaxSubLists}
NoIdCall ==
    [op |-> "none", lidx |-> 0, slidx |-> 0, id |-> Zero32,
     found |-> "none", steps |-> 0]
IdsInit(sizes) == listSize \in sizes /\ idCall = NoIdCall

\* ------------------------------------------- FilterLock and its callers
\* A calling thread is a stack of frames (empty when it is in no filter
\* function): the function, its argument as far as the locking depends on
\* it, how many of the function's events are done, whether the frame's
\* lock_guard holds FilterLock, whether an exception is unwinding it.
Callers == 1 .. MaxCallers
LockInit ==
    /\ FilterLock = 0
    /\ thr = [t \in Callers |-> << >>]
    /\ relock = FALSE

\* ------------------------------ SolarisBackend as its constructor leaves it
SolarisInit ==
    /\ mKillNow = TRUE
    /\ mThread = "empty"
    /\ Connected = TRUE
    /\ mpc = "none"
    /\ buffer = 0
    /\ cpc = "idle"
    /\ drains = 0
    /\ phase = "never"
    /\ lastStop = "none"
    /\ terminated = FALSE

\* ------------------------------------------------------------------ Init
\* An environment that grants every thread asked for.
Plenty == [threads |-> MaxThreads]
\* The attribute lists of a well-formed file.
DimList(v) == <<Attr("DIMENSION_LIST", v)>>
GoodSrate == <<Attr("DIMENSION_LIST", "I"), Attr("Units", "hertz")>>
GoodIr == DimList("M,R,N")

\* Source files and arguments for the assignment: every channel layout,
\* impulse length and delay dimensionality, no resampling.
LoadInputs ==
    [sofa : [E : {1}, R : {1, 2}, N : {1, 2}, M : {0, MaxM}, rate : {2},
             srateAttrs : {GoodSrate}, irAttrs : {GoodIr},
             delayAttrs : {<< >>, DimList("I,R"), DimList("M,R")}],
     args : [numThreads : {1}, fftSize : {2}, truncSize : {1}, outRate : {0},
             chanMode : {"CM_AllowStereo", "CM_ForceMono"}],
     env : {Plenty}]

\* The same with an output rate: the source rate, and another one.
RateInputs ==
    [sofa : [E : {1}, R : {2}, N : {1, 2}, M : {MaxM}, rate : {2},
             srateAttrs : {GoodSrate}, irAttrs : {GoodIr},
             delayAttrs : {DimList("M,R")}],
     args : [numThreads : {1}, fftSize : {2}, truncSize : {1},
             outRate : Rates, chanMode : {"CM_AllowStereo", "CM_ForceMono"}],
     env : {Plenty}]

\* Every worker thread count, on files of two measurements.
PoolInputs ==
    [sofa : [E : {1}, R : {1, 2}, N : {2}, M : {2}, rate : {2},
             srateAttrs : {GoodSrate}, irAttrs : {GoodIr},
             delayAttrs : {<< >>}],
     args : [numThreads : 0 .. MaxThreads, fftSize : {2}, truncSize : {1},
             outRate : {0}, chanMode : {"CM_AllowStereo"}],
     env : {Plenty}]

\* Files that deviate from a well-formed one-measurement file in one header
\* item: counts, attribute lists (missing, duplicated, unsupported or
\* unexpected attributes) and the rate value.
BaseSofa ==
    [E |-> 1, R |-> 1, N |-> 2, M |-> 1, rate |-> 2, srateAttrs |-> GoodSrate,
     irAttrs |-> GoodIr, delayAttrs |-> DimList("I,R")]
BaseArgs ==
    [numThreads |-> 1, fftSize |-> 2, truncSize |-> 1, outRate |-> 0,
     chanMode |-> "CM_AllowStereo"]
Extra == Attr("Comment", "text")
HeaderSofas ==
    {[BaseSofa EXCEPT !.E = e] : e \in {0, 2}}
    \cup {[BaseSofa EXCEPT !.R = r] : r \in {0, 3}}
    \cup {[BaseSofa EXCEPT !.N = 3]}
    \cup {[BaseSofa EXCEPT !.rate = r] : r \in {MIN_RATE - 1, MAX_RATE + 1}}
    \cup {[BaseSofa EXCEPT !.srateAttrs = a] : a \in
            {<< >>, <<Attr("Units", "hertz")>>, DimList("I"),
             DimList("I") \o GoodSrate, GoodSrate \o <<Attr("Units", "hertz")>>,
             <<Attr("DIMENSION_LIST", "M"), Attr("Units", "hertz")>>,
             <<Attr("DIMENSION_LIST", "I"), Attr("Units", "kilohertz")>>,
             <<Extra>> \o GoodSrate, <<Extra>>}}
    \cup {[BaseSofa EXCEPT !.delayAttrs = a] : a \in
            {DimList("I,R") \o DimList("I,R"), DimList("I,R,N"),
             DimList("M,R") \o <<Extra>>, <<Extra>>}}
    \cup {[BaseSofa EXCEPT !.irAttrs = a] : a \in
            {<< >>, GoodIr \o GoodIr, DimList("M,R"), <<Extra>> \o GoodIr,
             <<Extra>>}}
HeaderInputs ==
    [sofa : HeaderSofas, args : {BaseArgs}, env : {Plenty}]
    \cup {[sofa |-> [BaseSofa EXCEPT !.N = 1],
           args |-> [BaseArgs EXCEPT !.truncSize = 2], env |-> Plenty]}
\* An FFT size of one sample, with and without an output rate.
SizeInputs ==
    {[sofa |-> [BaseSofa EXCEPT !.N = 1],
      args |-> [BaseArgs EXCEPT !.fftSize = 1, !.outRate = r],
      env |-> Plenty] : r \in {0} \cup Rates}
\* Worker thread counts the system does not grant in full.
ThreadInputs ==
    UNION {{[sofa |-> BaseSofa,
             args |-> [BaseArgs EXCEPT !.numThreads = n],
             env |-> [threads |-> t]] : t \in 0 .. n - 1} :
           n \in 1 .. MaxThreads}

InitWith(inputs) ==
    /\ \E in \in inputs :
          sofaHrtf = in.sofa /\ args = in.args /\ env = in.env
    /\ pc = "start"
    /\ retval = "none"
    /\ diag = Diag("none")
    /\ vfi = 0
    /\ mChannelType = "CT_NONE"
    /\ mIrPoints = 0
    /\ mFftSize = 0
    /\ mIrSize = 0
    /\ mIrRate = 0
    /\ mIrCount = 0
    /\ mRadius = 0
    /\ mFds = << >>
    /\ mHrirsBase = << >>
    /\ taskpc = "idle"
    /\ taskres = "none"
    /\ si = 0
    /\ aer = NoPosition
    /\ loaded_count = 0
    /\ assigned = << >>
    /\ oi = 0
    /\ hrir_total = 0
    /\ hrir_done = 0
    /\ onsets = << >>
    /\ mIrs = << >>
    /\ mCurrent = 0
    /\ mDone = 0
    /\ created = 0
    /\ joined = 0
    /\ wpc = [w \in Workers |-> "none"]
    /\ idx = [w \in Workers |-> 0]
    /\ claimCount = << >>
    /\ procCount = << >>
    /\ preMag = << >>

Init ==
    /\ InitWith(LoadInputs \cup RateInputs \cup PoolInputs \cup HeaderInputs
                \cup SizeInputs \cup ThreadInputs)
    /\ FilterInit({<< >>})
    /\ IdsInit({0}) /\ LockInit /\ SolarisInit
InitPool ==
    /\ InitWith(PoolInputs \cup ThreadInputs)
    /\ FilterInit({<< >>})
    /\ IdsInit({0}) /\ LockInit /\ SolarisInit

\* ------------------------------------------- LoadSofaFile: header checks
\* The first check of lines 438-484 that fails, or "ok".
\* Faulty variant: the impulse length is not compared with the FFT size.
HeaderFailure_NoFftCheck(sofa, a) ==
    CASE sofa.E /= 1 -> "emitters not supported"
      [] sofa.R > 2 \/ sofa.R < 1 -> "receivers not supported"
      [] sofa.N < a.truncSize -> "Sample points is below the truncation size"
      [] GetSampleRate(sofa) = 0 -> SampleRateError(sofa)
      [] PrepareDelay(sofa) = "nullopt" -> "delay dimensions"
      [] ~CheckIrData(sofa) -> "IR dimensions"
      [] OTHER -> "ok"

HeaderFailure(sofa, a) ==
    CASE sofa.E /= 1 -> "emitters not supported"
      [] sofa.R > 2 \/ sofa.R < 1 -> "receivers not supported"
      [] sofa.N > a.fftSize -> "Sample points exceeds the FFT size"
      [] sofa.N < a.truncSize -> "Sample points is below the truncation size"
      [] GetSampleRate(sofa) = 0 -> SampleRateError(sofa)
      [] PrepareDelay(sofa) = "nullopt" -> "delay dimensions"
      [] ~CheckIrData(sofa) -> "IR dimensions"
      [] OTHER -> "ok"

\* a diagnostic, then return false
Fail(msg) ==
    /\ pc' = "done"
    /\ retval' = "false"
    /\ diag' = Diag(msg)

\* Faulty variant: a failed check leaves the grid object as it was.
CheckHeader_KeepsEntryState ==
    /\ pc = "start"
    /\ LET f == HeaderFailure(sofaHrtf, args)
       IN  IF f = "ok"
           THEN /\ mChannelType' =
                      IF sofaHrtf.R = 2 /\ args.chanMode = "CM_AllowStereo"
                      THEN "CT_STEREO" ELSE "CT_MONO"
                /\ mIrPoints' = sofaHrtf.N
                /\ mFftSize' = args.fftSize
                /\ mIrSize' = Max(1 + (args.fftSize \div 2), sofaHrtf.N)
                /\ mRadius' = DefaultRadius
                /\ mIrRate' = GetSampleRate(sofaHrtf)
                /\ pc' = "layout" /\ UNCHANGED <<retval, diag>>
           ELSE /\ Fail(f)
                /\ UNCHANGED <<mChannelType, mIrPoints, mFftSize, mIrSize,
                               mRadius, mIrRate>>
    /\ UNCHANGED <<fvars, xvars, ivars, vfi, mIrCount, gvars, tvars, ovars, mvars>>

\* lines 438-484
CheckHeader ==
    /\ pc = "start"
    /\ LET f == HeaderFailure(sofaHrtf, args)
           early == f \in {"emitters not supported", "receivers not supported"}
           sized == ~early /\ f \notin {"Sample points exceeds the FFT size",
                        "Sample points is below the truncation size"}
       IN  /\ mChannelType' =
                 IF early THEN mChannelType
                 ELSE IF sofaHrtf.R = 2 /\ args.chanMode = "CM_AllowStereo"
                      THEN "CT_STEREO" ELSE "CT_MONO"
           /\ mIrPoints' = IF sized THEN sofaHrtf.N ELSE mIrPoints
           /\ mFftSize' = IF sized THEN args.fftSize ELSE mFftSize
           /\ mIrSize' = IF sized THEN Max(1 + (args.fftSize \div 2), sofaHrtf.N)
                         ELSE mIrSize
           /\ mRadius' = IF sized THEN DefaultRadius ELSE mRadius
           /\ mIrRate' = IF sized THEN GetSampleRate(sofaHrtf) ELSE mIrRate
           /\ IF f = "ok"
              THEN pc' = "layout" /\ UNCHANGED <<retval, diag>>
              ELSE Fail(f)
    /\ UNCHANGED <<fvars, xvars, ivars, vfi, mIrCount, gvars, tvars, ovars, mvars>>

\* --------------------------------------------------------- PrepareLayout
\* azCounts[fi][ei] as PrepareLayout fills it from a detected field
LayoutAzCount(field, ei) ==
    IF ei < field.mEvStart THEN field.mAzCounts[field.mEvCount - ei - 1]
    ELSE field.mAzCounts[ei]

FieldAzTotal(field) ==
    SumTo([ei \in 0 .. field.mEvCount - 1 |-> LayoutAzCount(field, ei)],
          field.mEvCount)

\* The storage index of slot 0 of ring ei of field fi.
IndexBase(fds, fi, ei) ==
    SumTo([f \in 0 .. fi - 1 |-> FieldAzTotal(fds[f])], fi)
    + SumTo([e \in 0 .. ei - 1 |-> LayoutAzCount(fds[fi], e)], ei)

\* PrepareHrirData: the tree of fields, rings and slots, every slot with an
\* index of its own, no storage and no delay.
PrepareHrirData(fds) ==
    [fi \in DOMAIN fds |->
        [mDistance |-> fds[fi].mDistance,
         mEvStart |-> 0,
         mEvs |-> [ei \in 0 .. fds[fi].mEvCount - 1 |->
            [mAzs |-> [ai \in 0 .. LayoutAzCount(fds[fi], ei) - 1 |->
                [mIndex |-> IndexBase(fds, fi, ei) + ai,
                 mIrs |-> Arr2(EmptySpan, EmptySpan),
                 mDelays |-> Arr2(0, 0)]]]]]]

IrTotal(fds) == SumTo([f \in DOMAIN fds |-> FieldAzTotal(fds[f])], Size(fds))

\* Faulty variant: no limit on the number of fields.
TooManyFields_Never(fds) == FALSE
\* if(fds.size() > MAX_FD_COUNT), line 67
TooManyFields(fds) == Size(fds) > MAX_FD_COUNT

PrepareLayout ==
    /\ pc = "layout"
    /\ \E fds \in Layouts :
          IF TooManyFields(fds)
          THEN /\ Fail("Incompatible layout")
               /\ UNCHANGED <<mFds, mIrCount, assigned>>
          ELSE /\ mFds' = PrepareHrirData(fds)
               /\ mIrCount' = IrTotal(fds)
               /\ assigned' = [i \in 0 .. IrTotal(fds) - 1 |-> << >>]
               /\ pc' = "load"
               /\ UNCHANGED <<retval, diag>>
    /\ UNCHANGED <<fvars, xvars, ivars, vfi, mChannelType, mIrPoints, mFftSize, mIrSize,
                   mIrRate, mRadius, mHrirsBase, taskpc, taskres, si, aer,
                   loaded_count, ovars, mvars>>

\* --------------------------------------------------------- LoadResponses
\* std::async(std::launch::async, load_proc)
LoadResponses ==
    /\ pc = "load"
    /\ pc' = "load_wait"
    /\ taskpc' = "init"
    /\ loaded_count' = 0
    /\ UNCHANGED <<fvars, xvars, ivars, retval, diag, vfi, hvars, gvars, taskres, si, aer,
                   assigned, ovars, mvars>>

\* load_proc, lines 267-277: the storage, zero-filled
LoadInit ==
    /\ pc = "load_wait"
    /\ taskpc = "init"
    /\ mHrirsBase' = [k \in 0 .. Channels(mChannelType) * mIrCount * mIrSize - 1
                         |-> 0]
    /\ si' = 0
    /\ taskpc' = "begin"
    /\ UNCHANGED <<fvars, xvars, ivars, pc, retval, diag, vfi, hvars, mFds, taskres, aer,
                   loaded_count, assigned, ovars, mvars>>

\* Faulty variant: the counter is advanced only for a measurement that has
\* a slot.
LoadBegin_CountsMatched ==
    /\ pc = "load_wait"
    /\ taskpc = "begin"
    /\ si < sofaHrtf.M
    /\ \E p \in SourcePositions :
          /\ aer' = p
          /\ loaded_count' = IF SnapSlot(mFds, p) = NoSlot THEN loaded_count
                              ELSE loaded_count + 1
    /\ taskpc' = "body"
    /\ UNCHANGED <<fvars, xvars, ivars, pc, retval, diag, vfi, hvars, gvars, taskres, si,
                   assigned, ovars, mvars>>

\* lines 282-288: the loop test, the progress counter, the position read
LoadBegin ==
    /\ pc = "load_wait"
    /\ taskpc = "begin"
    /\ si < sofaHrtf.M
    /\ loaded_count' = loaded_count + 1
    /\ \E p \in SourcePositions : aer' = p
    /\ taskpc' = "body"
    /\ UNCHANGED <<fvars, xvars, ivars, pc, retval, diag, vfi, hvars, gvars, taskres, si,
                   assigned, ovars, mvars>>

\* Faulty variant: the delays are divided by the output rate when the
\* responses are resampled.
AssignSlot_OutRate(azd, s) ==
    LET ch == Channels(mChannelType)
        rate == IF Resampling(args.outRate, mIrRate) THEN args.outRate
                ELSE mIrRate
    IN  [azd EXCEPT
           !.mIrs = [ti \in 0 .. 1 |->
                        IF ti < ch
                        THEN SlotSpan(mIrCount, mIrSize, azd.mIndex, ti)
                        ELSE azd.mIrs[ti]],
           !.mDelays = [ti \in 0 .. 1 |->
                        IF ti >= ch THEN azd.mDelays[ti]
                        ELSE IF PrepareDelay(sofaHrtf) = "I_R"
                             THEN DelayOf(ti, rate)
                        ELSE IF PrepareDelay(sofaHrtf) = "M_R"
                             THEN DelayOf(s * sofaHrtf.R + ti, rate)
                        ELSE azd.mDelays[ti]]]

\* Faulty variant: a per-measurement delay list is read as a global one.
AssignSlot_GlobalDelay(azd, s) ==
    LET ch == Channels(mChannelType)
    IN  [azd EXCEPT
           !.mIrs = [ti \in 0 .. 1 |->
                        IF ti < ch
                        THEN SlotSpan(mIrCount, mIrSize, azd.mIndex, ti)
                        ELSE azd.mIrs[ti]],
           !.mDelays = [ti \in 0 .. 1 |->
                        IF ti >= ch THEN azd.mDelays[ti]
                        ELSE IF PrepareDelay(sofaHrtf) \in {"I_R", "M_R"}
                             THEN DelayOf(ti, mIrRate)
                        ELSE azd.mDelays[ti]]]

\* The slot after the assignment of measurement s (lines 321-351).
AssignSlot(azd, s) ==
    LET ch == Channels(mChannelType)
    IN  [azd EXCEPT
           !.mIrs = [ti \in 0 .. 1 |->
                        IF ti < ch
                        THEN SlotSpan(mIrCount, mIrSize, azd.mIndex, ti)
                        ELSE azd.mIrs[ti]],
           !.mDelays = [ti \in 0 .. 1 |->
                        IF ti >= ch THEN azd.mDelays[ti]
                        ELSE IF PrepareDelay(sofaHrtf) = "I_R"
                             THEN DelayOf(ti, mIrRate)
                        ELSE IF PrepareDelay(sofaHrtf) = "M_R"
                             THEN DelayOf(s * sofaHrtf.R + ti, mIrRate)
                        ELSE azd.mDelays[ti]]]

\* The storage after the copy (or resampling) of measurement s into the
\* regions of slot index i (lines 321-334).
AssignStorage(base, i, s) ==
    [k \in DOMAIN base |->
        LET hit == {ti \in 0 .. Channels(mChannelType) - 1 :
                        InSpan(k, SlotSpan(mIrCount, mIrSize, i, ti))}
        IN  IF hit = {} THEN base[k]
            ELSE LET ti == CHOOSE t \in hit : TRUE
                     off == SlotSpan(mIrCount, mIrSize, i, ti).off
                 IN  IF ~Resampling(args.outRate, mIrRate) /\ k - off >= sofaHrtf.N
                     THEN base[k]
                     ELSE LoadedSample(s, ti, k - off, sofaHrtf.R, sofaHrtf.N,
                                       args.outRate, mIrRate)]

\* Faulty variant: the duplicate test never fires.
Populated_Never(azd) == FALSE
\* if(!azd.mIrs[0].empty()): the slot already holds a measurement
Populated(azd) == azd.mIrs[0].len /= 0

\* lines 290-352: one measurement is dropped, is a duplicate, or is assigned
LoadBody ==
    /\ pc = "load_wait"
    /\ taskpc = "body"
    /\ LET t == SnapSlot(mFds, aer)
       IN  IF t = NoSlot
           THEN /\ si' = si + 1
                /\ taskpc' = "begin"
                /\ UNCHANGED <<gvars, taskres, assigned, diag>>
           ELSE LET azd == mFds[t.fi].mEvs[t.ei].mAzs[t.ai]
                IN  IF Populated(azd)
                    THEN /\ taskres' = "false"
                         /\ taskpc' = "ready"
                         /\ diag' = Diag("Multiple measurements")
                         /\ UNCHANGED <<gvars, si, assigned>>
                    ELSE /\ mFds' = [mFds EXCEPT
                                ![t.fi].mEvs[t.ei].mAzs[t.ai] = AssignSlot(azd, si)]
                         /\ mHrirsBase' = AssignStorage(mHrirsBase, azd.mIndex, si)
                         /\ assigned' = [assigned EXCEPT
                                ![azd.mIndex] = Append(@, si)]
                         /\ si' = si + 1
                         /\ taskpc' = "begin"
                         /\ UNCHANGED <<taskres, diag>>
    /\ aer' = NoPosition
    /\ UNCHANGED <<fvars, xvars, ivars, pc, retval, vfi, hvars, loaded_count, ovars, mvars>>

\* Faulty variant: the rescaled impulse length is not limited to mIrSize.
LoadFinish_NoClamp ==
    /\ pc = "load_wait"
    /\ taskpc = "begin"
    /\ si >= sofaHrtf.M
    /\ IF Resampling(args.outRate, mIrRate)
       THEN /\ mIrRate' = args.outRate
            /\ mIrPoints' = CeilDiv(mIrPoints * args.outRate, mIrRate)
       ELSE UNCHANGED <<mIrRate, mIrPoints>>
    /\ taskres' = "true"
    /\ taskpc' = "ready"
    /\ UNCHANGED <<fvars, xvars, ivars, pc, retval, diag, vfi, mChannelType, mFftSize,
                   mIrSize, mIrCount, mRadius, gvars, si, aer, loaded_count, assigned,
                   ovars, mvars>>

\* lines 354-361: the loop has ended; the rate switch
LoadFinish ==
    /\ pc = "load_wait"
    /\ taskpc = "begin"
    /\ si >= sofaHrtf.M
    /\ IF Resampling(args.outRate, mIrRate)
       THEN /\ mIrRate' = args.outRate
            /\ mIrPoints' = Min(CeilDiv(mIrPoints * args.outRate, mIrRate),
                                mIrSize)
       ELSE UNCHANGED <<mIrRate, mIrPoints>>
    /\ taskres' = "true"
    /\ taskpc' = "ready"
    /\ UNCHANGED <<fvars, xvars, ivars, pc, retval, diag, vfi, mChannelType, mFftSize,
                   mIrSize, mIrCount, mRadius, gvars, si, aer, loaded_count, assigned,
                   ovars, mvars>>

\* Faulty variant: the calling thread goes on without waiting for the task.
LoadPoll_NoWait ==
    /\ pc = "load_wait"
    /\ pc' = "validate"
    /\ UNCHANGED <<fvars, xvars, ivars, retval, diag, vfi, hvars, gvars, tvars, ovars, mvars>>

\* lines 364-372 and 487-488: wait_for, the progress line, get()
LoadPoll ==
    /\ pc = "load_wait"
    /\ IF taskpc = "ready"
       THEN /\ taskpc' = "idle"
            /\ taskres' = "none"
            /\ IF taskres = "true"
               THEN pc' = "validate" /\ UNCHANGED <<retval>>
               ELSE pc' = "done" /\ retval' = "false"
       ELSE UNCHANGED <<pc, retval, taskpc, taskres>>
    /\ UNCHANGED <<fvars, xvars, ivars, diag, vfi, hvars, gvars, si, aer,
                   loaded_count, assigned, ovars, mvars>>

\* ------------------------------------------------ completeness validation
\* Faulty variant: only the first slot of a ring is looked at.
RingHasData_FirstSlotOnly(ring) == Populated(ring.mAzs[0])
\* lines 496-502: some slot of the ring is populated
RingHasData(ring) == \E ai \in DOMAIN ring.mAzs : Populated(ring.mAzs[ai])

\* Faulty variant: the last ring with a populated slot.
FirstDataRing_Last(field) ==
    LET m == {ei \in DOMAIN field.mEvs : RingHasData(field.mEvs[ei])}
    IN  IF m = {} THEN Size(field.mEvs)
        ELSE CHOOSE ei \in m : \A ej \in m : ei >= ej
\* lines 493-504: the first ring with a populated slot, or the ring count
FirstDataRing(field) ==
    LET m == {ei \in DOMAIN field.mEvs : RingHasData(field.mEvs[ei])}
    IN  IF m = {} THEN Size(field.mEvs)
        ELSE CHOOSE ei \in m : \A ej \in m : ei <= ej

\* Faulty variant: the completeness loop starts one ring after the start ring.
MissingFrom_SkipStart(field, start) ==
    UNION {{[ei |-> ei, ai |-> ai] :
                ai \in {a \in DOMAIN field.mEvs[ei].mAzs :
                            ~Populated(field.mEvs[ei].mAzs[a])}} :
           ei \in {e \in DOMAIN field.mEvs : e > start}}
\* lines 511-522: the unpopulated slots of the rings from ei on
MissingFrom(field, start) ==
    UNION {{[ei |-> ei, ai |-> ai] :
                ai \in {a \in DOMAIN field.mEvs[ei].mAzs :
                            ~Populated(field.mEvs[ei].mAzs[a])}} :
           ei \in {e \in DOMAIN field.mEvs : e >= start}}

\* the first of them in the loops' order
FirstMissing(field, start) ==
    LET m == MissingFrom(field, start)
    IN  CHOOSE c \in m : \A d \in m :
            c.ei < d.ei \/ (c.ei = d.ei /\ c.ai <= d.ai)

\* lines 491-523, one field
ValidateField ==
    /\ pc = "validate"
    /\ vfi < Size(mFds)
    /\ LET field == mFds[vfi]
           ei == FirstDataRing(field)
       IN  IF ei >= Size(field.mEvs)
           THEN /\ pc' = "done"
                /\ retval' = "false"
                /\ diag' = [msg |-> "Missing source references", fi |-> vfi,
                            ei |-> -1, ai |-> -1]
                /\ UNCHANGED <<mFds, vfi>>
           ELSE /\ mFds' = [mFds EXCEPT ![vfi].mEvStart = ei]
                /\ IF MissingFrom(field, ei) /= {}
                   THEN /\ pc' = "done"
                        /\ retval' = "false"
                        /\ diag' = [msg |-> "Missing source reference",
                                    fi |-> vfi,
                                    ei |-> FirstMissing(field, ei).ei,
                                    ai |-> FirstMissing(field, ei).ai]
                        /\ UNCHANGED vfi
                   ELSE /\ vfi' = vfi + 1
                        /\ UNCHANGED <<pc, retval, diag>>
    /\ UNCHANGED <<fvars, xvars, ivars, hvars, mHrirsBase, tvars, ovars, mvars>>

\* Faulty variant: a slot below the start ring takes the views of the slot of the
\* mirror ring.
MirrorViews_Alias(fds) ==
    [fi \in DOMAIN fds |->
        [fds[fi] EXCEPT !.mEvs = [ei \in DOMAIN fds[fi].mEvs |->
            IF ei >= fds[fi].mEvStart THEN fds[fi].mEvs[ei]
            ELSE [mAzs |-> [ai \in DOMAIN fds[fi].mEvs[ei].mAzs |->
                    LET azd == fds[fi].mEvs[ei].mAzs[ai]
                        mirror == fds[fi].mEvs[Size(fds[fi].mEvs) - 1 - ei]
                    IN  [azd EXCEPT !.mIrs =
                            IF ai \in DOMAIN mirror.mAzs
                            THEN mirror.mAzs[ai].mIrs ELSE azd.mIrs]]]]]]
\* lines 531-540: the views of the slots of the rings below the start ring
MirrorViews(fds) ==
    [fi \in DOMAIN fds |->
        [fds[fi] EXCEPT !.mEvs = [ei \in DOMAIN fds[fi].mEvs |->
            IF ei >= fds[fi].mEvStart THEN fds[fi].mEvs[ei]
            ELSE [mAzs |-> [ai \in DOMAIN fds[fi].mEvs[ei].mAzs |->
                    LET azd == fds[fi].mEvs[ei].mAzs[ai]
                    IN  [azd EXCEPT !.mIrs = [ti \in 0 .. 1 |->
                            IF ti < Channels(mChannelType)
                            THEN SlotSpan(mIrCount, mIrSize, azd.mIndex, ti)
                            ELSE azd.mIrs[ti]]]]]]]]

\* The (slot, channel) pairs of the rings from the start ring on, in the
\* order of the loops of lines 555-569 and 585-595.
WorkItems(fds) ==
    UNION {UNION {{[fi |-> fi, ei |-> ei, ai |-> ai, ti |-> ti] :
                      ai \in DOMAIN fds[fi].mEvs[ei].mAzs,
                      ti \in 0 .. Channels(mChannelType) - 1} :
                  ei \in {e \in DOMAIN fds[fi].mEvs : e >= fds[fi].mEvStart}} :
           fi \in DOMAIN fds}

ItemBefore(a, b) ==
    \/ a.fi < b.fi
    \/ a.fi = b.fi /\ a.ei < b.ei
    \/ a.fi = b.fi /\ a.ei = b.ei /\ a.ai < b.ai
    \/ a.fi = b.fi /\ a.ei = b.ei /\ a.ai = b.ai /\ a.ti < b.ti

WorkList(fds) ==
    LET items == WorkItems(fds)
    IN  [k \in 0 .. Cardinality(items) - 1 |->
            CHOOSE it \in items :
                Cardinality({j \in items : ItemBefore(j, it)}) = k]

\* lines 526-544
SetupViews ==
    /\ pc = "validate"
    /\ vfi >= Size(mFds)
    /\ mFds' = MirrorViews(mFds)
    /\ hrir_total' = Cardinality(WorkItems(mFds))
    /\ pc' = "onset"
    /\ UNCHANGED <<fvars, xvars, ivars, retval, diag, vfi, hvars, mHrirsBase, tvars, oi,
                   hrir_done, onsets, mvars>>

\* ------------------------------------------------------------ onset task
\* The index of the first element of largest absolute value
\* (std::ranges::max_element with the projection make_abs).
MaxAbsIndex(arr) ==
    CHOOSE j \in DOMAIN arr :
        /\ \A i \in DOMAIN arr : Abs(arr[i]) <= Abs(arr[j])
        /\ \A i \in DOMAIN arr : i < j => Abs(arr[i]) < Abs(arr[j])

\* CalcHrirOnset, in ticks: the response upsampled OnsetRateMultiple times,
\* the index of its peak over OnsetRateMultiple * rate.
CalcHrirOnset(rate, hrir, points) ==
    LET upsampled == [j \in 0 .. OnsetRateMultiple * points - 1 |->
                        Resample(hrir, points, rate, OnsetRateMultiple * rate, j)]
    IN  (MaxAbsIndex(upsampled) * TicksPerSecond)
            \div (OnsetRateMultiple * rate)

\* the samples a span views
SpanData(base, sp) == [k \in 0 .. sp.len - 1 |-> base[sp.off + k]]

\* std::async(std::launch::async, onset_proc), lines 546-574
StartOnsets ==
    /\ pc = "onset"
    /\ pc' = "onset_wait"
    /\ taskpc' = "onset"
    /\ oi' = 0
    /\ hrir_done' = 0
    /\ onsets' = [k \in 0 .. hrir_total - 1 |-> << >>]
    /\ UNCHANGED <<fvars, xvars, ivars, retval, diag, vfi, hvars, gvars, taskres, si, aer,
                   loaded_count, assigned, hrir_total, mvars>>

\* Faulty variant: the onset replaces the recorded delay.
OnsetStep_Overwrite ==
    /\ pc = "onset_wait"
    /\ taskpc = "onset"
    /\ oi < Cardinality(WorkItems(mFds))
    /\ LET it == WorkList(mFds)[oi]
           azd == mFds[it.fi].mEvs[it.ei].mAzs[it.ai]
           onset == CalcHrirOnset(mIrRate, SpanData(mHrirsBase, azd.mIrs[it.ti]),
                                  mIrPoints)
       IN  /\ mFds' = [mFds EXCEPT
                ![it.fi].mEvs[it.ei].mAzs[it.ai].mDelays[it.ti] = onset]
           /\ onsets' = [onsets EXCEPT ![oi] = Append(@, onset)]
    /\ hrir_done' = hrir_done + 1
    /\ oi' = oi + 1
    /\ UNCHANGED <<fvars, xvars, ivars, pc, retval, diag, vfi, hvars, mHrirsBase, tvars,
                   hrir_total, mvars>>

\* lines 561-566: one (slot, channel)
OnsetStep ==
    /\ pc = "onset_wait"
    /\ taskpc = "onset"
    /\ oi < Cardinality(WorkItems(mFds))
    /\ LET it == WorkList(mFds)[oi]
           azd == mFds[it.fi].mEvs[it.ei].mAzs[it.ai]
           onset == CalcHrirOnset(mIrRate, SpanData(mHrirsBase, azd.mIrs[it.ti]),
                                  mIrPoints)
       IN  /\ mFds' = [mFds EXCEPT
                ![it.fi].mEvs[it.ei].mAzs[it.ai].mDelays[it.ti] = @ + onset]
           /\ onsets' = [onsets EXCEPT ![oi] = Append(@, onset)]
    /\ hrir_done' = hrir_done + 1
    /\ oi' = oi + 1
    /\ UNCHANGED <<fvars, xvars, ivars, pc, retval, diag, vfi, hvars, mHrirsBase, tvars,
                   hrir_total, mvars>>

\* line 570
OnsetFinish ==
    /\ pc = "onset_wait"
    /\ taskpc = "onset"
    /\ oi >= Cardinality(WorkItems(mFds))
    /\ taskres' = "true"
    /\ taskpc' = "ready"
    /\ UNCHANGED <<fvars, xvars, ivars, pc, retval, diag, vfi, hvars, gvars, si, aer,
                   loaded_count, assigned, ovars, mvars>>

\* lines 573-582: wait_for, the progress line, get()
OnsetPoll ==
    /\ pc = "onset_wait"
    /\ IF taskpc = "ready"
       THEN /\ taskpc' = "idle"
            /\ taskres' = "none"
            /\ IF taskres = "true"
               THEN pc' = "magnitude" /\ UNCHANGED retval
               ELSE pc' = "done" /\ retval' = "false"
       ELSE UNCHANGED <<pc, retval, taskpc, taskres>>
    /\ UNCHANGED <<fvars, xvars, ivars, diag, vfi, hvars, gvars, si, aer,
                   loaded_count, assigned, ovars, mvars>>

\* ------------------------------------------------------ magnitude workers
\* The magnitude of bin k of the forward transform of h (fftSize samples),
\* for the bins whose magnitude is an integer: 0 and, for an even size,
\* fftSize/2.
DftMagnitude(h, fftSize, k) ==
    CASE k = 0 -> Abs(SumTo(h, fftSize))
      [] k > 0 /\ 2 * k = fftSize ->
            Abs(SumTo([j \in 0 .. fftSize - 1 |->
                          IF j % 2 = 0 THEN h[j] ELSE -h[j]], fftSize))

\* The span's samples after CalcHrirMagnitude(points, h, hrir): the first
\* fftSize/2 + 1 are the magnitudes of the zero-padded first `points`
\* samples, the others are untouched.
MagnitudeOf(points, fftSize, hrir) ==
    LET h == [j \in 0 .. fftSize - 1 |-> IF j < points THEN hrir[j] ELSE 0]
    IN  [k \in DOMAIN hrir |->
            IF k <= fftSize \div 2 THEN DftMagnitude(h, fftSize, k)
            ELSE hrir[k]]

\* Faulty variant: the input read from the start of the storage, not from the region.
CalcHrirMagnitude_SharedInput(points, fftSize, base, sp) ==
    [k \in DOMAIN base |->
        IF InSpan(k, sp)
        THEN MagnitudeOf(points, fftSize,
                         SpanData(base, [off |-> 0, len |-> sp.len]))[k - sp.off]
        ELSE base[k]]
\* the storage after CalcHrirMagnitude on the region sp
CalcHrirMagnitude(points, fftSize, base, sp) ==
    [k \in DOMAIN base |->
        IF InSpan(k, sp)
        THEN MagnitudeOf(points, fftSize, SpanData(base, sp))[k - sp.off]
        ELSE base[k]]

\* Faulty variant: a load followed by a plain store, the comparison lost.
CasSucceeds_NoCompare(current, expected) == TRUE
\* compare_exchange_weak(idx, idx+1) can succeed
CasSucceeds(current, expected) == current = expected

\* lines 584-595: the calculator and its work list
BuildWorkList ==
    /\ pc = "magnitude"
    /\ mIrs' = [k \in DOMAIN WorkList(mFds) |->
                   LET it == WorkList(mFds)[k]
                   IN  mFds[it.fi].mEvs[it.ei].mAzs[it.ai].mIrs[it.ti]]
    /\ mCurrent' = 0
    /\ mDone' = 0
    /\ claimCount' = [k \in DOMAIN WorkList(mFds) |-> 0]
    /\ procCount' = [k \in DOMAIN WorkList(mFds) |-> 0]
    /\ preMag' = mHrirsBase
    /\ pc' = IF args.numThreads = 0 THEN "mag_poll" ELSE "spawn"
    /\ UNCHANGED <<fvars, xvars, ivars, retval, diag, vfi, hvars, gvars, tvars, ovars,
                   created, joined, wpc, idx>>

\* lines 597-600: thrds.emplace_back(&MagCalculator::Worker, &calculator)
SpawnWorker ==
    /\ pc = "spawn"
    /\ created < args.numThreads
    /\ created < env.threads
    /\ created' = created + 1
    /\ wpc' = [wpc EXCEPT ![created] = "load"]
    /\ pc' = IF created + 1 = args.numThreads THEN "mag_poll" ELSE "spawn"
    /\ UNCHANGED <<fvars, xvars, ivars, retval, diag, vfi, hvars, gvars, tvars, ovars,
                   mIrs, mCurrent, mDone, joined, idx, claimCount, procCount,
                   preMag>>

\* line 600, the std::thread constructor throws std::system_error: nothing
\* in LoadSofaFile catches it.  With no thread created yet the exception
\* leaves LoadSofaFile; with a joinable thread in thrds, the vector's
\* destruction calls std::terminate.  Either way the process's threads are
\* gone before any value is returned.
SpawnThrows ==
    /\ pc = "spawn"
    /\ created < args.numThreads
    /\ created >= env.threads
    /\ pc' = IF created = 0 THEN "exception" ELSE "terminated"
    /\ wpc' = [w \in Workers |->
                 IF wpc[w] \in {"none", "returned"} THEN wpc[w] ELSE "killed"]
    /\ UNCHANGED <<fvars, xvars, ivars, retval, diag, vfi, hvars, gvars, tvars, ovars,
                   mIrs, mCurrent, mDone, created, joined, idx, claimCount,
                   procCount, preMag>>

\* Faulty variant: the end test off by one, the last index never taken.
AfterRead_OffByOne(i) == IF i + 1 >= Size(mIrs) THEN "returned" ELSE "cas"
\* what a worker does with the index it has just read: return or go on
AfterRead(i) == IF i >= Size(mIrs) THEN "returned" ELSE "cas"

\* lines 397-401: idx = mCurrent.load(), and the end test
WorkerLoad(w) ==
    /\ wpc[w] = "load"
    /\ idx' = [idx EXCEPT ![w] = mCurrent]
    /\ wpc' = [wpc EXCEPT ![w] = AfterRead(mCurrent)]
    /\ UNCHANGED <<fvars, xvars, ivars, pc, retval, diag, vfi, hvars, gvars, tvars, ovars,
                   mIrs, mCurrent, mDone, created, joined, claimCount,
                   procCount, preMag>>

\* Faulty variant: the completed counter is advanced with the cursor.
WorkerCasOk_CountsEarly(w) ==
    /\ wpc[w] = "cas"
    /\ CasSucceeds(mCurrent, idx[w])
    /\ mCurrent' = idx[w] + 1
    /\ mDone' = mDone + 1
    /\ claimCount' = [claimCount EXCEPT ![idx[w]] = @ + 1]
    /\ wpc' = [wpc EXCEPT ![w] = "load"]
    /\ UNCHANGED <<fvars, xvars, ivars, pc, retval, diag, vfi, hvars, gvars, tvars, ovars,
                   mIrs, created, joined, idx, procCount, preMag>>

\* line 407, the exchange succeeds: the worker owns idx
WorkerCasOk(w) ==
    /\ wpc[w] = "cas"
    /\ CasSucceeds(mCurrent, idx[w])
    /\ mCurrent' = idx[w] + 1
    /\ claimCount' = [claimCount EXCEPT ![idx[w]] = @ + 1]
    /\ wpc' = [wpc EXCEPT ![w] = "calc"]
    /\ UNCHANGED <<fvars, xvars, ivars, pc, retval, diag, vfi, hvars, gvars, tvars, ovars,
                   mIrs, mDone, created, joined, idx, procCount, preMag>>

\* line 407, the exchange fails (another thread changed mCurrent, or the
\* weak exchange fails spuriously): idx is reloaded, then the end test
WorkerCasFail(w) ==
    /\ wpc[w] = "cas"
    /\ idx' = [idx EXCEPT ![w] = mCurrent]
    /\ wpc' = [wpc EXCEPT ![w] = AfterRead(mCurrent)]
    /\ UNCHANGED <<fvars, xvars, ivars, pc, retval, diag, vfi, hvars, gvars, tvars, ovars,
                   mIrs, mCurrent, mDone, created, joined, claimCount,
                   procCount, preMag>>

\* line 409
WorkerCalc(w) ==
    /\ wpc[w] = "calc"
    /\ mHrirsBase' = CalcHrirMagnitude(mIrPoints, mFftSize, mHrirsBase,
                                       mIrs[idx[w]])
    /\ procCount' = [procCount EXCEPT ![idx[w]] = @ + 1]
    /\ wpc' = [wpc EXCEPT ![w] = "count"]
    /\ UNCHANGED <<fvars, xvars, ivars, pc, retval, diag, vfi, hvars, mFds, tvars, ovars,
                   mIrs, mCurrent, mDone, created, joined, idx, claimCount,
                   preMag>>

\* line 412: mDone.fetch_add(1)
WorkerCount(w) ==
    /\ wpc[w] = "count"
    /\ mDone' = mDone + 1
    /\ wpc' = [wpc EXCEPT ![w] = "load"]
    /\ UNCHANGED <<fvars, xvars, ivars, pc, retval, diag, vfi, hvars, gvars, tvars, ovars,
                   mIrs, mCurrent, created, joined, idx, claimCount,
                   procCount, preMag>>

\* Faulty variant: the loop also ends when there is no worker to wait for.
MagPoll_ExitsIdle ==
    /\ pc = "mag_poll"
    /\ pc' = IF mDone = Size(mIrs) \/ created = 0 THEN "join" ELSE "mag_poll"
    /\ UNCHANGED <<fvars, xvars, ivars, retval, diag, vfi, hvars, gvars, tvars, ovars, mvars>>

\* lines 602-608: sleep, count = mDone.load(), the progress line
MagPoll ==
    /\ pc = "mag_poll"
    /\ pc' = IF mDone = Size(mIrs) THEN "join" ELSE "mag_poll"
    /\ UNCHANGED <<fvars, xvars, ivars, retval, diag, vfi, hvars, gvars, tvars, ovars, mvars>>

\* lines 611-615: thrd.join() returns once that worker has returned
JoinWorker ==
    /\ pc = "join"
    /\ joined < args.numThreads
    /\ wpc[joined] = "returned"
    /\ joined' = joined + 1
    /\ UNCHANGED <<fvars, xvars, ivars, pc, retval, diag, vfi, hvars, gvars, tvars, ovars,
                   mIrs, mCurrent, mDone, created, wpc, idx, claimCount,
                   procCount, preMag>>

\* line 616
ReturnTrue ==
    /\ pc = "join"
    /\ joined >= args.numThreads
    /\ pc' = "done"
    /\ retval' = "true"
    /\ UNCHANGED <<fvars, xvars, ivars, diag, vfi, hvars, gvars, tvars, ovars, mvars>>

\* ------------------------------------------------- filter calls (al/filter.cpp)
\* the call returns: what it was given, the error it raised, the IDs it
\* wrote to the caller's array, the IDs it freed
Returns(op, n, fids, avail, raised, out, freed) ==
    /\ call' = [op |-> op, n |-> n, fids |-> fids, avail |-> avail,
                value |-> "none", raised |-> raised, out |-> out,
                freed |-> freed]
    /\ calls' = calls + 1
\* the same for a call that sets a property of one filter to value
ReturnsSet(op, id, value, raised) ==
    /\ call' = [op |-> op, n |-> 1, fids |-> <<id>>, avail |-> 0,
                value |-> value, raised |-> raised, out |-> << >>,
                freed |-> << >>]
    /\ calls' = calls + 1

\* alGenFiltersDirect (lines 370-391), under the device's FilterLock
alGenFilters ==
    /\ calls < MaxCalls
    /\ \E n \in GenCounts, avail \in 0 .. MaxAvail :
          IF n < 0
          THEN /\ Returns("alGenFilters", n, << >>, avail, "AL_INVALID_VALUE",
                          << >>, << >>)
               /\ UNCHANGED <<FilterList, mFilterNames, ub>>
          ELSE IF n <= 0
          THEN /\ Returns("alGenFilters", n, << >>, avail, "AL_NO_ERROR",
                          << >>, << >>)
               /\ UNCHANGED <<FilterList, mFilterNames, ub>>
          ELSE LET e == EnsureFilters(FilterList, n, avail)
                   g == Generate(e.list, n, << >>)
               IN  IF ~e.ok
                   THEN /\ Returns("alGenFilters", n, << >>, avail,
                                   "AL_OUT_OF_MEMORY", << >>, << >>)
                        /\ FilterList' = e.list
                        /\ UNCHANGED <<mFilterNames, ub>>
                   ELSE /\ Returns("alGenFilters", n, << >>, avail,
                                   "AL_NO_ERROR", g.ids, << >>)
                        /\ FilterList' = g.list
                        /\ ub' = (ub \/ g.ub)
                        /\ UNCHANGED mFilterNames
    /\ UNCHANGED <<lvars, xvars>>

\* alDeleteFiltersDirect (lines 393-420), under the device's FilterLock
alDeleteFilters ==
    /\ calls < MaxCalls
    /\ \E d \in DeleteInputs :
          IF d.n < 0
          THEN /\ Returns("alDeleteFilters", d.n, d.fids, 0,
                          "AL_INVALID_VALUE", << >>, << >>)
               /\ UNCHANGED <<FilterList, mFilterNames>>
          ELSE IF d.n <= 0
          THEN /\ Returns("alDeleteFilters", d.n, d.fids, 0, "AL_NO_ERROR",
                          << >>, << >>)
               /\ UNCHANGED <<FilterList, mFilterNames>>
          ELSE IF AnyInvalid(FilterList, d.fids)
          THEN /\ Returns("alDeleteFilters", d.n, d.fids, 0,
                          "AL_INVALID_NAME", << >>, << >>)
               /\ UNCHANGED <<FilterList, mFilterNames>>
          ELSE LET st == DeleteEach([list |-> FilterList,
                                     names |-> mFilterNames,
                                     freed |-> << >>], d.fids, 1)
               IN  /\ Returns("alDeleteFilters", d.n, d.fids, 0,
                              "AL_NO_ERROR", << >>, st.freed)
                   /\ FilterList' = st.list
                   /\ mFilterNames' = st.names
    /\ UNCHANGED <<lvars, xvars, ub>>

\* alFilteriDirect with param = AL_FILTER_TYPE (lines 433-448), the value
\* one of values: the filter is given the defaults of the new type
alFilteriOf(values) ==
    /\ calls < MaxCalls
    /\ \E id \in IdPool, value \in values :
          LET p == LookupFilter(FilterList, id)
          IN  IF p = NullFilter
              THEN /\ ReturnsSet("alFilteri", id, value, "AL_INVALID_NAME")
                   /\ UNCHANGED FilterList
              ELSE IF value \notin FilterTypes
              THEN /\ ReturnsSet("alFilteri", id, value, "AL_INVALID_VALUE")
                   /\ UNCHANGED FilterList
              ELSE /\ ReturnsSet("alFilteri", id, value, "AL_NO_ERROR")
                   /\ FilterList' = [FilterList EXCEPT
                         ![p.lidx].Filters[p.slidx] =
                             InitFilterParams(@, value)]
    /\ UNCHANGED <<lvars, xvars, mFilterNames, ub>>

\* The setParamf handler of the filter's type (lines 216-235, 267-286,
\* 318-344; the null type's at 188-189): the field the parameter names, AL_INVALID_ENUM when it names
\* none, AL_INVALID_VALUE when val is outside the range of the parameter
setParamf(filter, param, val) ==
    LET t == filter.type
        field ==
           CASE t = "AL_FILTER_LOWPASS" /\ param = Enum.AL_LOWPASS_GAIN
                   -> "Gain"
             [] t = "AL_FILTER_LOWPASS" /\ param = Enum.AL_LOWPASS_GAINHF
                   -> "GainHF"
             [] t = "AL_FILTER_HIGHPASS" /\ param = Enum.AL_HIGHPASS_GAIN
                   -> "Gain"
             [] t = "AL_FILTER_HIGHPASS" /\ param = Enum.AL_HIGHPASS_GAINLF
                   -> "GainLF"
             [] t = "AL_FILTER_BANDPASS" /\ param = Enum.AL_BANDPASS_GAIN
                   -> "Gain"
             [] t = "AL_FILTER_BANDPASS" /\ param = Enum.AL_BANDPASS_GAINHF
                   -> "GainHF"
             [] t = "AL_FILTER_BANDPASS" /\ param = Enum.AL_BANDPASS_GAINLF
                   -> "GainLF"
             [] OTHER -> "none"
    IN  IF field = "none"
        THEN [filter |-> filter, raised |-> "AL_INVALID_ENUM"]
        ELSE IF val \notin InRange
        THEN [filter |-> filter, raised |-> "AL_INVALID_VALUE"]
        ELSE [filter |-> [filter EXCEPT ![field] = val],
              raised |-> "AL_NO_ERROR"]

\* alFilterfDirect (lines 488-504)
alFilterf ==
    /\ calls < MaxCalls
    /\ \E id \in IdPool, param \in FloatParams, val \in FloatValues :
          LET p == LookupFilter(FilterList, id)
          IN  IF p = NullFilter
              THEN /\ ReturnsSet("alFilterf", id, val, "AL_INVALID_NAME")
                   /\ UNCHANGED FilterList
              ELSE LET r == setParamf(FilterList[p.lidx].Filters[p.slidx],
                                      param, val)
                   IN  /\ ReturnsSet("alFilterf", id, val, r.raised)
                       /\ FilterList' = [FilterList EXCEPT
                             ![p.lidx].Filters[p.slidx] = r.filter]
    /\ UNCHANGED <<lvars, xvars, mFilterNames, ub>>

\* ALfilter::SetName (lines 615-623)
SetName ==
    /\ calls < MaxCalls
    /\ \E id \in IdPool :
          IF LookupFilter(FilterList, id) = NullFilter
          THEN /\ Returns("SetName", 1, <<id>>, 0, "AL_INVALID_NAME",
                          << >>, << >>)
               /\ UNCHANGED mFilterNames
          ELSE /\ Returns("SetName", 1, <<id>>, 0, "AL_NO_ERROR", << >>, << >>)
               /\ mFilterNames' = {nm \in mFilterNames : nm.id /= id}
                                     \cup {[id |-> id, name |-> "name"]}
    /\ UNCHANGED <<lvars, xvars, FilterList, ub>>

\* alIsFilterDirect's answer (lines 427-429)
IsFilter_IgnoresFreeMask(list, id) ==
    id = 0 \/ SlotOf(id).lidx < Size(list)
IsFilter(list, id) ==
    id = 0 \/ LookupFilter(list, id) /= NullFilter

\* alIsFilterDirect (lines 422-430), under the device's FilterLock
alIsFilter ==
    /\ calls < MaxCalls
    /\ \E id \in IdPool :
          Returns("alIsFilter", 1, <<id>>, 0, "AL_NO_ERROR",
                  <<IsFilter(FilterList, id)>>, << >>)
    /\ UNCHANGED <<lvars, xvars, FilterList, mFilterNames, ub>>

\* ------------------------------------------------------- specifications
Worker(w) ==
    \/ WorkerLoad(w)
    \/ WorkerCasOk(w)
    \/ WorkerCasFail(w)
    \/ WorkerCalc(w)
    \/ WorkerCount(w)

Next ==
    \/ CheckHeader
    \/ PrepareLayout
    \/ LoadResponses
    \/ LoadInit
    \/ LoadBegin
    \/ LoadBody
    \/ LoadFinish
    \/ LoadPoll
    \/ ValidateField
    \/ SetupViews
    \/ StartOnsets
    \/ OnsetStep
    \/ OnsetFinish
    \/ OnsetPoll
    \/ BuildWorkList
    \/ SpawnWorker
    \/ SpawnThrows
    \/ \E w \in Workers : Worker(w)
    \/ MagPoll
    \/ JoinWorker
    \/ ReturnTrue

Spec == Init /\ [][Next]_vars
SpecPool == InitPool /\ [][Next]_vars

\* the steps of the magnitude stage: the calling thread and the workers
PoolStep ==
    \/ SpawnWorker
    \/ \E w \in Workers : Worker(w)
    \/ MagPoll
    \/ JoinWorker
    \/ ReturnTrue

\* In the magnitude stage, some thread that can change the state eventually
\* does: the scheduler runs every thread, and a weak exchange that could
\* succeed does not fail for ever.  (A poll that reads an unfinished count
\* and an exchange that fails spuriously leave the state as it is.)
Fairness == WF_vars(PoolStep)
FairPool == SpecPool /\ Fairness

\* The filter calls of one device, in any order (each holds the device's
\* FilterLock from its first access to its return); the type is set to
\* low-pass or to an invalid value.
InitFilter ==
    /\ InitWith({[sofa |-> BaseSofa, args |-> BaseArgs, env |-> Plenty]})
    /\ FilterInit({<< >>, NearlyFull})
    /\ IdsInit({0}) /\ LockInit /\ SolarisInit
NextFilter ==
    \/ alGenFilters
    \/ alDeleteFilters
    \/ alFilteriOf({"AL_FILTER_LOWPASS", "invalid"})
    \/ SetName
SpecFilter == InitFilter /\ [][NextFilter]_vars

\* The calls that create and destroy filters, and the query.
NextQuery ==
    \/ alGenFilters
    \/ alDeleteFilters
    \/ alIsFilter
SpecQuery == InitFilter /\ [][NextQuery]_vars

\* The calls that create filters and set their type and parameters.
NextParams ==
    \/ alGenFilters
    \/ alFilteriOf(TypeValues)
    \/ alFilterf
SpecParams == InitFilter /\ [][NextParams]_vars

\* ------------------------------------------- the filter calls' locking
\* The entry points (lines 370-623) and the arguments their locking
\* depends on: the count of alGenFilters and alDeleteFilters, the parameter
\* of alFilteriv and alGetFilteriv.
EntryPoints ==
    {[fn |-> f, arg |-> a] : f \in {"alGenFilters", "alDeleteFilters"},
                             a \in {"n <= 0", "n > 0"}}
    \cup {[fn |-> f, arg |-> a] : f \in {"alFilteriv", "alGetFilteriv"},
                                  a \in {"AL_FILTER_TYPE", "other"}}
    \cup {[fn |-> f, arg |-> "any"] :
             f \in {"alIsFilter", "alFilteri", "alFilterf", "alFilterfv",
                    "alGetFilteri", "alGetFilterf", "alGetFilterfv",
                    "SetName"}}
\* Faulty variant: alFilteriv and alGetFilteriv take the lock first.
Events_LockFirst(fn, arg) ==
    IF arg = "n <= 0" THEN << >>
    ELSE IF fn = "alFilteriv" /\ arg = "AL_FILTER_TYPE"
    THEN <<"lock", "alFilteri">>
    ELSE IF fn = "alGetFilteriv" /\ arg = "AL_FILTER_TYPE"
    THEN <<"lock", "alGetFilteri">>
    ELSE <<"lock", "access">>
\* What a function does with the lock and the table, in order, up to its
\* return: "lock" is the construction of its std::lock_guard, "access" its
\* reads and writes of the filter list and the name table (which may
\* throw), a function's name a call of it. alGenFilters and alDeleteFilters
\* return or throw before the lock for n <= 0 (lines 371-373, 397-399);
\* alFilteriv and alGetFilteriv pass AL_FILTER_TYPE on and return (lines
\* 466-471, 554-559); all else locks and then looks the filter up.
Events(fn, arg) ==
    IF arg = "n <= 0" THEN << >>
    ELSE IF fn = "alFilteriv" /\ arg = "AL_FILTER_TYPE"
    THEN <<"alFilteri">>
    ELSE IF fn = "alGetFilteriv" /\ arg = "AL_FILTER_TYPE"
    THEN <<"alGetFilteri">>
    ELSE <<"lock", "access">>

Frame(fn, arg) ==
    [fn |-> fn, arg |-> arg, done |-> 0, holds |-> FALSE, threw |-> FALSE]
Top(t) == thr[t][Len(thr[t])]
\* the event the thread's innermost function is at, "return" after its
\* last and while an exception leaves it
NextEvent(t) ==
    IF thr[t] = << >> THEN "idle"
    ELSE LET f == Top(t)
             ev == Events(f.fn, f.arg)
         IN  IF f.threw \/ f.done >= Len(ev) THEN "return"
             ELSE ev[f.done + 1]
SetTop(t, f) == thr' = [thr EXCEPT ![t][Len(thr[t])] = f]

\* a thread calls one of the functions
CallFilterFn(t) ==
    /\ thr[t] = << >>
    /\ \E e \in EntryPoints : thr' = [thr EXCEPT ![t] = <<Frame(e.fn, e.arg)>>]
    /\ UNCHANGED <<lvars, fvars, nvars, FilterLock, relock, svars>>
\* std::lock_guard{device->FilterLock}: the thread waits while another
\* owns the mutex; locking a std::mutex the thread owns is undefined
LockFilters(t) ==
    /\ NextEvent(t) = "lock"
    /\ ~relock
    /\ IF FilterLock = t
       THEN /\ relock' = TRUE
            /\ UNCHANGED <<FilterLock, thr>>
       ELSE /\ FilterLock = 0
            /\ FilterLock' = t
            /\ SetTop(t, [Top(t) EXCEPT !.done = @ + 1, !.holds = TRUE])
            /\ UNCHANGED relock
    /\ UNCHANGED <<lvars, fvars, nvars, svars>>
\* the function's work on the table: it ends, or throws (the throwing
\* LookupFilter, AL_OUT_OF_MEMORY, a handler's error)
AccessFilters(t) ==
    /\ NextEvent(t) = "access"
    /\ \E throws \in BOOLEAN :
          SetTop(t, [Top(t) EXCEPT !.done = @ + 1,
                                   !.threw = throws /\ Top(t).fn /= "alIsFilter"])
    /\ UNCHANGED <<lvars, fvars, nvars, FilterLock, relock, svars>>
\* alFilteriDirect or alGetFilteriDirect called from within a function
CallInner(t) ==
    /\ NextEvent(t) \in {"alFilteri", "alGetFilteri"}
    /\ thr' = [thr EXCEPT ![t] =
                  Append([@ EXCEPT ![Len(@)].done = @ + 1],
                         Frame(NextEvent(t), "any"))]
    /\ UNCHANGED <<lvars, fvars, nvars, FilterLock, relock, svars>>
\* the function returns, or its catch clause or its caller gets the
\* exception: its lock_guard, if it has one, unlocks
ReturnFilterFn(t) ==
    /\ NextEvent(t) = "return"
    /\ thr' = [thr EXCEPT ![t] = SubSeq(@, 1, Len(@) - 1)]
    /\ FilterLock' = IF Top(t).holds THEN 0 ELSE FilterLock
    /\ UNCHANGED <<lvars, fvars, nvars, relock, svars>>

InitLock ==
    /\ InitWith({[sofa |-> BaseSofa, args |-> BaseArgs, env |-> Plenty]})
    /\ FilterInit({<< >>})
    /\ IdsInit({0}) /\ LockInit /\ SolarisInit
NextLock ==
    \E t \in Callers :
       \/ CallFilterFn(t)
       \/ LockFilters(t)
       \/ AccessFilters(t)
       \/ CallInner(t)
       \/ ReturnFilterFn(t)
SpecLock == InitLock /\ [][NextLock]_vars

\* ------------------------------------ SolarisBackend (solaris.cpp)
\* One thread calls start() and stop(); mixerProc runs in mThread.
\* handleDisconnect is not among these sources: it may clear the device's
\* Connected flag.
\* start() (lines 242-252): the flag cleared, the thread created, which
\* may throw; assigning to a joinable std::thread calls std::terminate
SolarisStart ==
    /\ cpc = "idle" /\ ~terminated
    /\ mKillNow' = FALSE
    /\ IF mThread = "joinable"
       THEN /\ terminated' = TRUE
            /\ UNCHANGED <<mThread, mpc, buffer, drains, phase>>
       ELSE \E made \in BOOLEAN :
               IF made
               THEN /\ mThread' = "joinable"
                    /\ mpc' = "loop"
                    /\ buffer' = 0
                    /\ drains' = 0
                    /\ phase' = "started"
                    /\ UNCHANGED terminated
               ELSE UNCHANGED <<mThread, mpc, buffer, drains, phase,
                                terminated>>
    /\ UNCHANGED <<lvars, fvars, nvars, kvars, Connected, cpc, lastStop>>
\* stop() up to its join (lines 256-257): the flag exchanged for true;
\* stop returns when it was true or there is no thread to join
SolarisStop ==
    /\ cpc = "idle" /\ ~terminated
    /\ mKillNow' = TRUE
    /\ IF mKillNow \/ mThread /= "joinable"
       THEN lastStop' = "no-op" /\ UNCHANGED cpc
       ELSE cpc' = "join" /\ UNCHANGED lastStop
    /\ UNCHANGED <<lvars, fvars, nvars, kvars, mThread, Connected, mpc,
                   buffer, drains, phase, terminated>>
\* Faulty variant: the join does not wait for the thread.
Joined_NoWait == TRUE
\* mThread.join() returns when mixerProc has returned
Joined == mpc = "done"
\* mThread.join() (line 258)
stopJoin ==
    /\ cpc = "join" /\ ~terminated
    /\ Joined
    /\ mThread' = "empty"
    /\ cpc' = "drain"
    /\ UNCHANGED <<lvars, fvars, nvars, kvars, mKillNow, Connected, mpc,
                   buffer, drains, phase, lastStop, terminated>>
\* ioctl(mFd, AUDIO_DRAIN) (lines 260-261) and stop's return; a failure
\* of the ioctl is logged
stopDrain ==
    /\ cpc = "drain" /\ ~terminated
    /\ drains' = drains + 1
    /\ phase' = "stopped"
    /\ lastStop' = "joined"
    /\ cpc' = "idle"
    /\ UNCHANGED <<lvars, fvars, nvars, kvars, mKillNow, mThread, Connected,
                   mpc, buffer, terminated>>

\* the test of mixerProc's outer loop (lines 101-102)
mixerLoop ==
    /\ mpc = "loop" /\ ~terminated
    /\ mpc' = IF ~mKillNow /\ Connected THEN "poll" ELSE "done"
    /\ UNCHANGED <<lvars, fvars, nvars, kvars, mKillNow, mThread, Connected,
                   buffer, cpc, drains, phase, lastStop, terminated>>
\* poll() and what follows it (lines 104-125): EINTR or EAGAIN and a
\* timeout continue the loop, another error disconnects and leaves it,
\* else an update is rendered into mBuffer
mixerPoll ==
    /\ mpc = "poll" /\ ~terminated
    /\ \E pret \in {"EINTR", "error", "timeout", "ready"} :
          CASE pret = "error" ->
                  /\ Connected' \in {Connected, FALSE}
                  /\ mpc' = "done"
                  /\ UNCHANGED buffer
            [] pret = "ready" ->
                  /\ buffer' = MaxBuffer
                  /\ mpc' = "write loop"
                  /\ UNCHANGED Connected
            [] OTHER ->
                  /\ mpc' = "loop"
                  /\ UNCHANGED <<Connected, buffer>>
    /\ UNCHANGED <<lvars, fvars, nvars, kvars, mKillNow, mThread, cpc,
                   drains, phase, lastStop, terminated>>
\* Faulty variant: the write loop does not look at the kill flag.
WriteLoopRuns_NoKill == buffer > 0
\* the test of the write loop (line 126)
WriteLoopRuns == buffer > 0 /\ ~mKillNow
mixerWriteLoop ==
    /\ mpc = "write loop" /\ ~terminated
    /\ mpc' = IF WriteLoopRuns THEN "write" ELSE "loop"
    /\ UNCHANGED <<lvars, fvars, nvars, kvars, mKillNow, mThread, Connected,
                   buffer, cpc, drains, phase, lastStop, terminated>>
\* write() and what follows it (lines 128-138): EAGAIN, EWOULDBLOCK and
\* EINTR continue the write loop, another error disconnects and leaves
\* it, else the bytes written are taken off the buffer
mixerWrite ==
    /\ mpc = "write" /\ ~terminated
    /\ \/ /\ mpc' = "write loop"
          /\ UNCHANGED <<Connected, buffer>>
       \/ /\ Connected' \in {Connected, FALSE}
          /\ mpc' = "loop"
          /\ UNCHANGED buffer
       \/ \E wrote \in 0 .. buffer :
             /\ buffer' = buffer - wrote
             /\ mpc' = "write loop"
             /\ UNCHANGED Connected
    /\ UNCHANGED <<lvars, fvars, nvars, kvars, mKillNow, mThread, cpc,
                   drains, phase, lastStop, terminated>>

InitSolaris ==
    /\ InitWith({[sofa |-> BaseSofa, args |-> BaseArgs, env |-> Plenty]})
    /\ FilterInit({<< >>})
    /\ IdsInit({0}) /\ LockInit /\ SolarisInit
mixerProc ==
    \/ mixerLoop
    \/ mixerPoll
    \/ mixerWriteLoop
    \/ mixerWrite
NextSolaris ==
    \/ SolarisStart
    \/ SolarisStop
    \/ stopJoin
    \/ stopDrain
    \/ mixerProc
SpecSolaris == InitSolaris /\ [][NextSolaris]_vars
\* The mixer thread is scheduled and its poll (which has a timeout) and
\* write calls return; the thread in stop() is scheduled.
FairSolaris ==
    /\ SpecSolaris
    /\ WF_vars(mixerProc)
    /\ WF_vars(stopJoin)
    /\ WF_vars(stopDrain)

\* ------------------------------------------------ filter IDs in 32 bits
IdStep(op, lidx, slidx, id, found) ==
    idCall' = [op |-> op, lidx |-> lidx, slidx |-> slidx, id |-> id,
               found |-> found, steps |-> idCall.steps + 1]
\* Faulty variant: the list grows whatever its size.
MayGrow_NoLimit(size) == TRUE
\* the size test of EnsureFilters' loop (lines 111-112)
MayGrow(size) == ~(size >= MaxSubLists)

\* one pass of EnsureFilters' loop (lines 109-121): the list gets one more
\* sublist unless it has 1<<25 of them or the allocation throws
IdsGrow ==
    /\ idCall.steps < MaxCalls
    /\ IF ~MayGrow(listSize)
       THEN /\ IdStep("grow", 0, 0, Zero32, "false")
            /\ UNCHANGED listSize
       ELSE \E avail \in 0 .. 1 :
               IF avail = 0
               THEN /\ IdStep("grow", 0, 0, Zero32, "false")
                    /\ UNCHANGED listSize
               ELSE /\ IdStep("grow", 0, 0, Zero32, "true")
                    /\ listSize' = listSize + 1
    /\ UNCHANGED <<lvars, fvars, kvars, svars>>
\* AllocFilter (lines 127-144) where the first free slot is slidx of
\* sublist lidx: the ID it gives the filter
IdsAlloc ==
    /\ idCall.steps < MaxCalls
    /\ listSize > 0
    /\ \E lidx \in {0, listSize - 1}, slidx \in Bits :
          IdStep("alloc", lidx, slidx, MakeId(lidx, slidx), "none")
    /\ UNCHANGED <<lvars, fvars, listSize, kvars, svars>>
\* LookupFilter (lines 159-171) of 0, of 1, of the ID of the last step and
\* of the first ID of the sublist after the last
IdsLookup ==
    /\ idCall.steps < MaxCalls
    /\ \E id \in {Zero32, FromNat(1), idCall.id, MakeId(listSize, 0)} :
          IdStep("lookup", SlotOf32(id).lidx, SlotOf32(id).slidx, id,
                 Lookup32(listSize, id))
    /\ UNCHANGED <<lvars, fvars, listSize, kvars, svars>>

InitIds ==
    /\ InitWith({[sofa |-> BaseSofa, args |-> BaseArgs, env |-> Plenty]})
    /\ FilterInit({<< >>})
    /\ IdsInit(ListSizes) /\ LockInit /\ SolarisInit
NextIds == IdsGrow \/ IdsAlloc \/ IdsLookup
SpecIds == InitIds /\ [][NextIds]_vars

\* ---------------------------------------------------------------- claims
\* the slots of the tree, as coordinates
SlotCoords(fds) ==
    UNION {UNION {{[fi |-> fi, ei |-> ei, ai |-> ai] :
                      ai \in DOMAIN fds[fi].mEvs[ei].mAzs} :
                  ei \in DOMAIN fds[fi].mEvs} :
           fi \in DOMAIN fds}
SlotAt(fds, c) == fds[c.fi].mEvs[c.ei].mAzs[c.ai]
ChannelSet == 0 .. Channels(mChannelType) - 1
\* a worker that has claimed an index and not yet counted it
Holding(w) == wpc[w] \in {"calc", "count"}
\* the storage has been sized by the load task
Allocated ==
    \/ pc = "load_wait" /\ taskpc /= "init"
    \/ pc \in {"validate", "onset", "onset_wait", "magnitude", "spawn",
               "mag_poll", "join"}
    \/ pc = "done" /\ (retval = "true" \/ diag.msg \in
          {"Multiple measurements", "Missing source references",
           "Missing source reference"})
\* the magnitude stage has its work list
PoolBuilt == pc \in {"spawn", "mag_poll", "join"} \/ retval = "true"

\* C1: no work index is claimed by two workers, whatever the interleaving of
\* loads and exchanges: every index is claimed at most once, a worker that
\* processes an index holds one that was claimed exactly once (by the
\* exchange idx -> idx+1 that moved the cursor past it), and two workers
\* never hold the same index.
C1_ExclusiveClaim ==
    /\ \A k \in DOMAIN claimCount :
          /\ claimCount[k] <= 1
          /\ procCount[k] <= claimCount[k]
          /\ (claimCount[k] = 1) <=> (k < mCurrent)
    /\ \A w \in Workers :
          Holding(w) =>
             /\ idx[w] \in DOMAIN mIrs
             /\ idx[w] < mCurrent
             /\ claimCount[idx[w]] = 1
    /\ \A w1, w2 \in Workers :
          Holding(w1) /\ Holding(w2) /\ w1 /= w2 => idx[w1] /= idx[w2]

\* C1 witness: one worker owns an index that another worker has read too
\* and is about to fail its exchange on.
C1_Witness ==
    \E w1, w2 \in Workers :
        /\ w1 /= w2
        /\ wpc[w1] = "calc"
        /\ wpc[w2] = "cas"
        /\ idx[w2] = idx[w1]
        /\ C1_ExclusiveClaim

C2_Safety ==
    /\ \A k \in DOMAIN procCount : procCount[k] <= 1
    /\ \A w \in Workers :
          wpc[w] = "returned" => mCurrent >= Size(mIrs) /\ idx[w] >= Size(mIrs)
    /\ retval = "true" =>
          /\ joined = args.numThreads
          /\ \A w \in Workers : w < args.numThreads => wpc[w] = "returned"
          /\ mDone = Size(mIrs)
          /\ \A k \in DOMAIN procCount : procCount[k] = 1

\* C2: with at least one worker thread (every thread asked for is created)
\* and fair scheduling, every index of
\* the work list is processed exactly once, a worker returns only on reading
\* a cursor at or past the item count, the completed counter reaches the
\* item count and LoadSofaFile returns true, after every worker was joined.
C2_PoolCompletes ==
    /\ []C2_Safety
    /\ (pc = "spawn" /\ args.numThreads >= 1
                       /\ env.threads >= args.numThreads)
          ~> (pc = "done" /\ retval = "true")

\* C2 witness: two workers have finished a list of three or more items.
C2_Witness ==
    /\ retval = "true"
    /\ args.numThreads >= 2
    /\ Size(mIrs) >= 3
    /\ mDone = Size(mIrs)
    /\ joined = args.numThreads

RECURSIVE SequentialMag(_, _)
\* the storage after one worker has processed the items 0 .. n-1 in order
SequentialMag(base, n) ==
    IF n = 0 THEN base
    ELSE CalcHrirMagnitude(mIrPoints, mFftSize, SequentialMag(base, n - 1),
                           mIrs[n - 1])

\* C3: the storage the worker pool leaves is the one a single worker leaves,
\* for every thread count and interleaving: at any time each processed
\* item's region holds the magnitudes of that region's own earlier content,
\* and every other sample is untouched.
C3_SameAsOneWorker ==
    PoolBuilt =>
       /\ \A c \in DOMAIN mHrirsBase :
             LET hit == {k \in DOMAIN mIrs : InSpan(c, mIrs[k])}
             IN  mHrirsBase[c] =
                    IF \E k \in hit : procCount[k] > 0
                    THEN LET k == CHOOSE j \in hit : procCount[j] > 0
                         IN  MagnitudeOf(mIrPoints, mFftSize,
                                SpanData(preMag, mIrs[k]))[c - mIrs[k].off]
                    ELSE preMag[c]
       /\ retval = "true" => mHrirsBase = SequentialMag(preMag, Size(mIrs))

\* C3 witness: a pool of two or more workers has changed the storage.
C3_Witness ==
    /\ retval = "true"
    /\ args.numThreads >= 2
    /\ Size(mIrs) >= 3
    /\ mHrirsBase /= preMag
    /\ mHrirsBase = SequentialMag(preMag, Size(mIrs))

SpansDisjoint(a, b) == a.off + a.len <= b.off \/ b.off + b.len <= a.off

\* C4: the regions of different (slot, channel) pairs do not overlap and lie
\* inside the storage of channels * mIrCount * mIrSize samples; every view a
\* slot holds is its own region, and no two entries of the work list overlap.
C4_RegionsDisjoint ==
    Allocated =>
       LET total == Size(mHrirsBase)
           regs == {[c |-> c, t |-> t,
                     r |-> SlotSpan(mIrCount, mIrSize,
                                    SlotAt(mFds, c).mIndex, t)] :
                       c \in SlotCoords(mFds), t \in ChannelSet}
       IN  /\ total = Channels(mChannelType) * mIrCount * mIrSize
           /\ \A a \in regs :
                 /\ SlotAt(mFds, a.c).mIndex < mIrCount
                 /\ a.r.off >= 0 /\ a.r.off + a.r.len <= total
                 /\ SlotAt(mFds, a.c).mIrs[a.t] \in {EmptySpan, a.r}
                 /\ \A b \in regs :
                       (a.c /= b.c \/ a.t /= b.t) => SpansDisjoint(a.r, b.r)
           /\ \A k \in DOMAIN mIrs :
                 /\ mIrs[k].len = mIrSize
                 /\ mIrs[k].off + mIrs[k].len <= total
                 /\ \A l \in DOMAIN mIrs :
                       k /= l => SpansDisjoint(mIrs[k], mIrs[l])

\* C4 witness: a stereo work list of four or more regions.
C4_Witness ==
    /\ PoolBuilt
    /\ mChannelType = "CT_STEREO"
    /\ Size(mIrs) >= 4
    /\ \A k, l \in DOMAIN mIrs : k /= l => SpansDisjoint(mIrs[k], mIrs[l])

\* the slot index c stands for
IndexOf(c) == SlotAt(mFds, c).mIndex
\* a measurement was copied into the slot
HasData(c) == assigned[IndexOf(c)] /= << >>
\* the validation has accepted every field
PastValidation ==
    \/ pc = "validate" /\ vfi >= Size(mFds)
    \/ pc \in {"onset", "onset_wait", "magnitude", "spawn", "mag_poll", "join"}
    \/ retval = "true"
\* lines 526-544 have run
ViewsSet ==
    \/ pc \in {"onset", "onset_wait", "magnitude", "spawn", "mag_poll", "join"}
    \/ retval = "true"
\* no stage after the assignment has left a trace
NoLaterStage ==
    /\ hrir_total = 0 /\ hrir_done = 0 /\ onsets = << >>
    /\ mIrs = << >> /\ created = 0 /\ mDone = 0 /\ mCurrent = 0
\* the delay the assignment of measurement s gives channel ti
FirstDelay(s, ti) ==
    CASE PrepareDelay(sofaHrtf) = "I_R" ->
            DataDelay(ti) * (TicksPerSecond \div sofaHrtf.rate)
      [] PrepareDelay(sofaHrtf) = "M_R" ->
            DataDelay(s * sofaHrtf.R + ti) * (TicksPerSecond \div sofaHrtf.rate)
      [] OTHER -> 0
\* the measurement load_proc holds snaps to a slot that already has data
DuplicateAhead ==
    /\ pc = "load_wait" /\ taskpc = "body"
    /\ SnapSlot(mFds, aer) /= NoSlot
    /\ HasData(SnapSlot(mFds, aer))

C5_AfterDuplicate ==
    diag.msg = "Multiple measurements" =>
       /\ pc \in {"load_wait", "done"}
       /\ pc = "done" => retval = "false"
       /\ retval /= "true"
       /\ taskpc \in {"ready", "idle"}
       /\ taskpc = "ready" => taskres = "false"
       /\ si < sofaHrtf.M /\ loaded_count = si + 1
       /\ vfi = 0 /\ NoLaterStage
       /\ \A fi \in DOMAIN mFds : mFds[fi].mEvStart = 0
       /\ mIrRate = sofaHrtf.rate /\ mIrPoints = sofaHrtf.N
       /\ \A c \in SlotCoords(mFds) :
             /\ Len(assigned[IndexOf(c)]) <= 1
             /\ HasData(c) => \A ti \in ChannelSet :
                   /\ SlotAt(mFds, c).mDelays[ti] =
                         FirstDelay(assigned[IndexOf(c)][1], ti)
                   /\ \A k \in 0 .. mIrSize - 1 :
                         mHrirsBase[(mIrCount * ti + IndexOf(c)) * mIrSize + k]
                            = LoadedSample(assigned[IndexOf(c)][1], ti, k,
                                 sofaHrtf.R, sofaHrtf.N, args.outRate,
                                 sofaHrtf.rate)

C5_DuplicateStep ==
    /\ DuplicateAhead /\ taskpc' /= "body" =>
          /\ taskpc' = "ready" /\ taskres' = "false"
          /\ diag'.msg = "Multiple measurements"
          /\ UNCHANGED <<mFds, mHrirsBase, si, loaded_count, assigned>>
    /\ diag.msg = "Multiple measurements" =>
          UNCHANGED <<mFds, mHrirsBase, si, loaded_count, assigned, hvars>>

\* C5: a measurement that snaps to a slot that already holds data makes the
\* load task return failure at once and changes nothing: the slot keeps the
\* first measurement's samples and delays, no later measurement is
\* processed, and LoadSofaFile returns false with no validation, onset or
\* magnitude stage.
C5_DuplicateIsFatal == []C5_AfterDuplicate /\ [][C5_DuplicateStep]_vars

\* C5 witness: the load has failed on a duplicate, after at least one
\* assignment and with measurements left unprocessed.
C5_Witness ==
    /\ pc = "done" /\ retval = "false"
    /\ diag.msg = "Multiple measurements"
    /\ si >= 1 /\ si + 1 < sofaHrtf.M
    /\ \E c \in SlotCoords(mFds) : HasData(c)

\* C6: once the validation has accepted the fields, every slot of every ring
\* at or after its field's start ring was populated by exactly one
\* measurement; no slot is ever populated twice.
C6_PopulatedOnce ==
    /\ \A i \in DOMAIN assigned : Len(assigned[i]) <= 1
    /\ \A c \in SlotCoords(mFds) :
          /\ c.ei >= mFds[c.fi].mEvStart
          /\ PastValidation \/ (pc = "validate" /\ c.fi < vfi)
          => Len(assigned[IndexOf(c)]) = 1

\* C6 witness: a grid has passed the validation with a start ring above 0
\* and a ring of two slots.
C6_Witness ==
    /\ pc = "onset"
    /\ \E fi \in DOMAIN mFds :
          /\ mFds[fi].mEvStart = 1
          /\ Size(mFds[fi].mEvs[1].mAzs) = 2
    /\ C6_PopulatedOnce

\* the field has no measurement at all
FieldEmpty(fi) == \A c \in SlotCoords(mFds) : c.fi = fi => ~HasData(c)
\* a slot without a measurement in a ring at or after one that has data
FieldGap(fi) ==
    \E c, d \in SlotCoords(mFds) :
        /\ c.fi = fi /\ d.fi = fi
        /\ HasData(c) /\ d.ei >= c.ei /\ ~HasData(d)

\* C7: the validation fails the load, with no onset or magnitude stage, when
\* a field has no populated slot or a ring at or after the first ring with
\* data has an unpopulated slot; the fields are checked in order and the
\* first one in violation is the one reported.
C7_ValidatorRejects ==
    /\ \A fi \in DOMAIN mFds :
          PastValidation \/ (pc = "validate" /\ fi < vfi)
          => ~FieldEmpty(fi) /\ ~FieldGap(fi)
    /\ diag.msg \in {"Missing source references", "Missing source reference"} =>
          /\ pc = "done" /\ retval = "false" /\ NoLaterStage
          /\ diag.fi \in DOMAIN mFds
          /\ \A fj \in DOMAIN mFds :
                fj < diag.fi => ~FieldEmpty(fj) /\ ~FieldGap(fj)
          /\ diag.msg = "Missing source references" <=> FieldEmpty(diag.fi)
          /\ diag.msg = "Missing source reference" =>
                /\ FieldGap(diag.fi)
                /\ ~HasData([fi |-> diag.fi, ei |-> diag.ei, ai |-> diag.ai])
                /\ diag.ei >= mFds[diag.fi].mEvStart

\* C7 witness: the second field is rejected for a gap after the first field
\* was accepted.
C7_Witness ==
    /\ pc = "done" /\ retval = "false"
    /\ diag.msg = "Missing source reference"
    /\ diag.fi = 1
    /\ FieldGap(1) /\ ~FieldGap(0) /\ ~FieldEmpty(0)

\* the slot of the mirror ring that corresponds to c
MirrorOf(c) == [c EXCEPT !.ei = Size(mFds[c.fi].mEvs) - 1 - c.ei]
BelowStart(c) == c.ei < mFds[c.fi].mEvStart

MagnitudeRan == \E k \in DOMAIN procCount : procCount[k] > 0

\* C9: without resampling (output rate 0 or the source rate), from its
\* assignment until the magnitude stage runs, each channel's region of a
\* slot holds the N source samples of its measurement, in order, followed
\* by mIrSize - N zeros.
C9_RoundTripCopy ==
    /\ Allocated
    /\ args.outRate = 0 \/ args.outRate = sofaHrtf.rate
    /\ ~MagnitudeRan
    => \A c \in SlotCoords(mFds) : HasData(c) =>
          \A ti \in ChannelSet : \A k \in 0 .. mIrSize - 1 :
             mHrirsBase[(mIrCount * ti + IndexOf(c)) * mIrSize + k] =
                IF k < sofaHrtf.N
                THEN DataIR((assigned[IndexOf(c)][1] * sofaHrtf.R + ti)
                               * sofaHrtf.N + k)
                ELSE 0

\* C9 witness: a stereo grid loaded at the source rate from impulses shorter
\* than the storage, before the magnitude stage.
C9_Witness ==
    /\ pc = "magnitude"
    /\ args.outRate = sofaHrtf.rate
    /\ mChannelType = "CT_STEREO"
    /\ sofaHrtf.N < mIrSize
    /\ \E c \in SlotCoords(mFds) : HasData(c) /\ assigned[IndexOf(c)][1] >= 1

\* the position is within 0.001 degree of a pole
AtPole(p) == p.el >= PoleThreshold \/ p.el <= -PoleThreshold
\* the ring at the pole the position is at
PoleRing(fi, p) == IF p.el > 0 THEN Size(mFds[fi].mEvs) - 1 ELSE 0

C10_PoleStep ==
    /\ pc = "load_wait" /\ taskpc = "body" /\ taskpc' /= "body"
    /\ AtPole(aer)
    /\ FindField(mFds, aer.r) /= -1
    => LET fi == FindField(mFds, aer.r)
           pe == PoleRing(fi, aer)
           i == mFds[fi].mEvs[pe].mAzs[0].mIndex
       IN  IF assigned[i] /= << >>
           THEN taskres' = "false" /\ assigned' = assigned
           ELSE /\ assigned' = [assigned EXCEPT ![i] = <<si>>]
                /\ mFds'[fi].mEvs[pe].mAzs[0].mIrs[0].len = mIrSize
                /\ taskpc' = "begin"

\* C10: a measurement at 89.999 degrees of elevation or more (either pole)
\* has its azimuth forced to 0: whatever its source azimuth it is not
\* dropped for its azimuth and goes to azimuth slot 0 of the polar ring of
\* the field at its distance (where it is assigned, or is a duplicate).
C10_PoleHandling == [][C10_PoleStep]_vars

\* C10 witness: load_proc holds a pole measurement with a non-zero source
\* azimuth, which snaps to the empty slot 0 of the polar ring.
C10_Witness ==
    /\ pc = "load_wait" /\ taskpc = "body"
    /\ AtPole(aer) /\ aer.az /= 0 /\ aer.el < RightAngle
    /\ FindField(mFds, aer.r) /= -1
    /\ SnapSlot(mFds, aer) =
          [fi |-> FindField(mFds, aer.r),
           ei |-> PoleRing(FindField(mFds, aer.r), aer), ai |-> 0]
    /\ ~HasData(SnapSlot(mFds, aer))

\* the fields within 0.001 of distance r
FieldsAt(r) ==
    {fi \in DOMAIN mFds : r - mFds[fi].mDistance < DistTolerance
                          /\ mFds[fi].mDistance - r < DistTolerance}
\* the rings of field fi within 0.1 degree of elevation el
RingsAt(fi, el) ==
    LET n == Size(mFds[fi].mEvs) - 1
    IN  {e \in 0 .. n :
            /\ (RightAngle + el) * n - e * HalfCircle < EvTolerance * n
            /\ e * HalfCircle - (RightAngle + el) * n < EvTolerance * n}
\* the azimuth the slots are matched with
MatchAz(p) ==
    IF AtPole(p) THEN 0 ELSE (FullCircle - p.az) % FullCircle
\* the slot positions (the full turn included) of a ring of n slots within
\* 0.1 degree of azimuth az
SlotsAt(n, az) ==
    {k \in 0 .. n : /\ az * n - k * FullCircle < AzTolerance * n
                    /\ k * FullCircle - az * n < AzTolerance * n}
\* the measurement at p has no field, no ring or no slot within tolerance
Unmatched(p) ==
    \/ FieldsAt(p.r) = {}
    \/ LET fi == CHOOSE f \in FieldsAt(p.r) : \A g \in FieldsAt(p.r) : f <= g
       IN  \/ RingsAt(fi, p.el) = {}
           \/ \E e \in RingsAt(fi, p.el) :
                 SlotsAt(Size(mFds[fi].mEvs[e].mAzs), MatchAz(p)) = {}

C11_DropStep ==
    /\ pc = "load_wait" /\ taskpc = "body" /\ taskpc' /= "body"
    /\ Unmatched(aer)
    => /\ UNCHANGED <<mFds, mHrirsBase, assigned, hvars>>
       /\ UNCHANGED <<pc, retval, diag, taskres, loaded_count>>
       /\ si' = si + 1
       /\ taskpc' = "begin"

C11_DropsDoNotFail ==
    pc = "load_wait" =>
       /\ taskres = "false" =>
             /\ diag.msg = "Multiple measurements"
             /\ \E c \in SlotCoords(mFds) : HasData(c)
       /\ taskpc = "ready" /\ (\A c \in SlotCoords(mFds) : ~HasData(c))
          => taskres = "true" /\ si = sofaHrtf.M

\* C11: a measurement with no field within 0.001 of its distance, or with
\* an elevation or azimuth residual of 0.1 degree or more, is dropped
\* silently: its step changes no view, sample or delay, the loop goes on
\* with the next measurement, and a load task fails only on a duplicate,
\* never on drops (a file whose measurements are all dropped makes the task
\* return true).
C11_SilentDrop == []C11_DropsDoNotFail /\ [][C11_DropStep]_vars

\* C11 witness: load_proc holds a measurement that has a field but no slot
\* within the azimuth tolerance, after an earlier measurement was assigned.
C11_Witness ==
    /\ pc = "load_wait" /\ taskpc = "body"
    /\ Unmatched(aer)
    /\ FieldsAt(aer.r) /= {}
    /\ \A fi \in FieldsAt(aer.r) : RingsAt(fi, aer.el) /= {}
    /\ \E c \in SlotCoords(mFds) : HasData(c)

\* the values of the attributes called name, and how many there are
ValuesOf(attrs, name) ==
    {attrs[i].value : i \in {j \in DOMAIN attrs : attrs[j].name = name}}
CountOf(attrs, name) ==
    Cardinality({j \in DOMAIN attrs : attrs[j].name = name})
\* the file has one of the format errors of the list
FormatError(sofa) ==
    \/ sofa.E /= 1
    \/ sofa.R \notin {1, 2}
    \/ CountOf(sofa.srateAttrs, "DIMENSION_LIST") >= 2
    \/ CountOf(sofa.srateAttrs, "Units") >= 2
    \/ CountOf(sofa.delayAttrs, "DIMENSION_LIST") >= 2
    \/ CountOf(sofa.irAttrs, "DIMENSION_LIST") >= 2
    \/ ValuesOf(sofa.srateAttrs, "DIMENSION_LIST") /= {"I"}
    \/ ValuesOf(sofa.srateAttrs, "Units") /= {"hertz"}
    \/ sofa.rate < MIN_RATE \/ sofa.rate > MAX_RATE
    \/ \E v \in ValuesOf(sofa.delayAttrs, "DIMENSION_LIST") :
          v \notin {"I,R", "M,R"}
    \/ ValuesOf(sofa.irAttrs, "DIMENSION_LIST") /= {"M,R,N"}
\* no layout, storage or background work exists
NothingStarted ==
    /\ mFds = << >> /\ mHrirsBase = << >> /\ mIrCount = 0
    /\ assigned = << >> /\ taskpc = "idle" /\ si = 0 /\ loaded_count = 0
    /\ vfi = 0 /\ NoLaterStage

\* C12: a file with a format error (emitter count not 1, receiver count not
\* 1 or 2, a duplicated DIMENSION_LIST or Units attribute, a sample-rate
\* dimension missing or not "I", a unit missing or not "hertz", a rate
\* outside MIN_RATE..MAX_RATE, a delay dimension that is neither "I,R" nor
\* "M,R", an IR dimension missing or not "M,R,N") never gets past the header
\* checks: LoadSofaFile returns false with no layout and no assignment.
C12_FormatErrorsAbort ==
    FormatError(sofaHrtf) =>
       /\ pc \in {"start", "done"}
       /\ pc = "done" => retval = "false" /\ diag.msg /= "none"
       /\ retval /= "true"
       /\ NothingStarted

\* C12 witness: the load of a file with a second Units attribute on the
\* sample rate has returned.
C12_Witness ==
    /\ pc = "done" /\ retval = "false"
    /\ FormatError(sofaHrtf)
    /\ CountOf(sofaHrtf.srateAttrs, "Units") = 2
    /\ diag.msg = "Duplicate SampleRate.Units"

\* the attribute lists without the attributes the scans only report
Expected(attrs, names) == SelectSeq(attrs, LAMBDA a : a.name \in names)
Stripped(sofa) ==
    [sofa EXCEPT
        !.srateAttrs = Expected(@, {"DIMENSION_LIST", "Units"}),
        !.delayAttrs = Expected(@, {"DIMENSION_LIST"}),
        !.irAttrs = Expected(@, {"DIMENSION_LIST"})]
\* some array has an attribute other than DIMENSION_LIST (and Units)
HasUnexpected(sofa) == Stripped(sofa) /= sofa
\* the diagnostics of the stages after the header checks
LaterDiags ==
    {"none", "Incompatible layout", "Multiple measurements",
     "Missing source references", "Missing source reference"}

HeaderFailed == pc = "done" /\ retval = "false" /\ diag.msg \notin LaterDiags
\* the channel type the load selects (lines 452-455)
SelectedChannelType ==
    IF sofaHrtf.R = 2 /\ args.chanMode = "CM_AllowStereo"
    THEN "CT_STEREO" ELSE "CT_MONO"

\* C14 as stated: after a format error the grid object's channel type,
\* impulse length, FFT size, storage length, head radius and sample rate
\* are as they were at entry.
C14_NoStateWritten ==
    HeaderFailed =>
       /\ mChannelType = "CT_NONE"
       /\ mIrPoints = 0 /\ mFftSize = 0 /\ mIrSize = 0
       /\ mRadius = 0 /\ mIrRate = 0

\* C14 as amended: after a format error the grid object has no field tree,
\* no storage and no slot count, but it keeps what the checks before the
\* failing one wrote: nothing after an emitter or receiver count error; the
\* channel type after a sample-count error; the channel type, impulse
\* length, FFT size, storage length and head radius after a sample-rate
\* error (with the rate set to 0), and the source rate too after a delay or
\* IR dimension error.
C14_PartialHeaderState ==
    HeaderFailed =>
       /\ NothingStarted
       /\ CASE sofaHrtf.E /= 1 \/ sofaHrtf.R \notin {1, 2} ->
                 /\ mChannelType = "CT_NONE"
                 /\ mIrPoints = 0 /\ mFftSize = 0 /\ mIrSize = 0
                 /\ mRadius = 0 /\ mIrRate = 0
            [] sofaHrtf.N > args.fftSize \/ sofaHrtf.N < args.truncSize ->
                 /\ mChannelType = SelectedChannelType
                 /\ mIrPoints = 0 /\ mFftSize = 0 /\ mIrSize = 0
                 /\ mRadius = 0 /\ mIrRate = 0
            [] OTHER ->
                 /\ mChannelType = SelectedChannelType
                 /\ mIrPoints = sofaHrtf.N /\ mFftSize = args.fftSize
                 /\ mIrSize >= sofaHrtf.N /\ mIrSize >= 1 + args.fftSize \div 2
                 /\ mIrSize \in {sofaHrtf.N, 1 + args.fftSize \div 2}
                 /\ mRadius = DefaultRadius
                 /\ mIrRate =
                       IF diag.msg \in {"delay dimensions", "IR dimensions"}
                       THEN sofaHrtf.rate ELSE 0

\* C14 witness: LoadSofaFile has returned false for the delay dimensions,
\* with the channel type and the rate written.
C14_Witness ==
    /\ HeaderFailed
    /\ diag.msg = "delay dimensions"
    /\ mChannelType = "CT_MONO"
    /\ mIrRate = sofaHrtf.rate /\ mIrRate /= 0

\* a background task (load_proc or onset_proc) has been started and has not
\* finished
TaskRunning == taskpc \in {"init", "begin", "body", "onset"}
LoadTaskRunning == taskpc \in {"init", "begin", "body"}
\* a magnitude worker exists and has not returned
WorkerRunning == \E w \in Workers : wpc[w] \notin {"none", "returned"}
AfterLoad ==
    pc \in {"validate", "onset", "onset_wait", "magnitude", "spawn",
            "mag_poll", "join", "exception", "terminated"} \/ retval = "true"
AfterOnset ==
    pc \in {"magnitude", "spawn", "mag_poll", "join", "exception",
            "terminated"} \/ retval = "true"

C15_Ordered ==
    /\ TaskRunning => pc \in {"load_wait", "onset_wait"}
    /\ LoadTaskRunning => pc = "load_wait"
    /\ taskpc = "onset" => pc = "onset_wait"
    /\ AfterLoad =>
          /\ ~LoadTaskRunning
          /\ si = sofaHrtf.M /\ loaded_count = sofaHrtf.M
          /\ diag.msg = "none"
    /\ pc = "validate" => taskpc = "idle"
    /\ pc \in {"onset", "onset_wait"} \/ AfterOnset =>
          /\ vfi = Size(mFds)
          /\ \A fi \in DOMAIN mFds : ~FieldEmpty(fi) /\ ~FieldGap(fi)
    /\ AfterOnset =>
          /\ taskpc = "idle"
          /\ oi = hrir_total /\ hrir_done = hrir_total
          /\ \A k \in DOMAIN onsets : Len(onsets[k]) = 1
    /\ created > 0 \/ WorkerRunning => AfterOnset /\ pc /= "magnitude"
    /\ ~(TaskRunning /\ WorkerRunning)

C15_StageStep ==
    /\ taskpc' = "init" /\ taskpc /= "init" =>
          taskpc = "idle" /\ created = 0 /\ pc = "load"
    /\ taskpc' = "onset" /\ taskpc /= "onset" =>
          taskpc = "idle" /\ created = 0 /\ pc = "onset"
    /\ created' /= created => taskpc = "idle" /\ taskpc' = "idle"
    /\ pc' = "validate" /\ pc /= "validate" =>
          taskpc = "ready" /\ taskres = "true"
    /\ pc' = "magnitude" /\ pc /= "magnitude" =>
          taskpc = "ready" /\ taskres = "true"

\* C15: the stages are strictly ordered and the two concurrency patterns
\* never overlap: validation starts only when the assignment task has
\* finished with success, the onset task starts only when the validation has
\* accepted every field, a magnitude worker is created only when the onset
\* task has finished, and no background task ever runs while another
\* background task or a magnitude worker does.
C15_StagesOrdered == []C15_Ordered /\ [][C15_StageStep]_vars

\* C15 witness: a magnitude worker computes, after an assignment task and an
\* onset task that each did work.
C15_Witness ==
    /\ \E w \in Workers : wpc[w] = "calc"
    /\ taskpc = "idle"
    /\ loaded_count >= 1 /\ hrir_done >= 1
    /\ pc \in {"spawn", "mag_poll"}

\* C16 as stated: a worker thread that cannot be created makes LoadSofaFile
\* return false; the call never ends by an exception that leaves it or by
\* the termination of the process.
C16_FailureReturned ==
    /\ pc \notin {"exception", "terminated"}
    /\ pc = "done" /\ mIrs /= << >> /\ env.threads < args.numThreads
       => retval = "false"

\* C17: a layout of more than MAX_FD_COUNT fields makes PrepareLayout return
\* false before the grid is allocated, and LoadSofaFile return false before
\* any assignment: no grid ever has more than MAX_FD_COUNT fields, and
\* after the "Incompatible layout" diagnostic there is no field tree, no
\* storage and no task.
C17_TooManyFields ==
    /\ Size(mFds) <= MAX_FD_COUNT
    /\ diag.msg = "Incompatible layout" =>
          /\ pc = "done" /\ retval = "false"
          /\ NothingStarted
          /\ mIrPoints = sofaHrtf.N /\ mIrRate = sofaHrtf.rate

\* C17 witness: LoadSofaFile has returned false for the layout.
C17_Witness ==
    /\ pc = "done" /\ retval = "false"
    /\ diag.msg = "Incompatible layout"
    /\ mFds = << >>
    /\ \E fds \in Layouts : Size(fds) = MAX_FD_COUNT + 1

\* some slot of ring ei of field fi received a measurement
RingReceived(fi, ei) ==
    \E c \in SlotCoords(mFds) : c.fi = fi /\ c.ei = ei /\ HasData(c)
\* the validation has set the start ring of field fi
StartRingSet(fi) == PastValidation \/ (pc = "validate" /\ fi < vfi)

\* C18: the validator sets each field's start ring to the lowest ring that
\* has a populated slot: that ring has data, no ring below it has, and the
\* slots of the rings below it, all without a measurement, are accepted.
C18_StartRingIsLowest ==
    \A fi \in DOMAIN mFds : StartRingSet(fi) =>
       LET start == mFds[fi].mEvStart
       IN  /\ start \in DOMAIN mFds[fi].mEvs
           /\ RingReceived(fi, start)
           /\ \A ei \in DOMAIN mFds[fi].mEvs : ei < start => ~RingReceived(fi, ei)
           /\ \A c \in SlotCoords(mFds) :
                 c.fi = fi /\ c.ei < start =>
                    /\ assigned[IndexOf(c)] = << >>
                    /\ SlotAt(mFds, c).mDelays = Arr2(0, 0)
                    /\ pc = "validate" => SlotAt(mFds, c).mIrs[0] = EmptySpan

\* C18 witness: the load has succeeded on a grid whose lowest ring with data
\* is the last one of three.
C18_Witness ==
    /\ retval = "true"
    /\ \E fi \in DOMAIN mFds :
          /\ mFds[fi].mEvStart = 2
          /\ \E c \in SlotCoords(mFds) :
                c.fi = fi /\ c.ei < 2 /\ ~HasData(c)

\* the slots that hold a measurement
DataSlots == {c \in SlotCoords(mFds) : HasData(c)}

C19_Counter ==
    /\ loaded_count \in 0 .. sofaHrtf.M
    /\ si \in 0 .. sofaHrtf.M
    /\ pc = "load_wait" =>
          /\ taskpc \in {"init", "begin"} => loaded_count = si
          /\ taskpc = "body" => loaded_count = si + 1
          /\ taskpc = "ready" /\ taskres = "true" => loaded_count = sofaHrtf.M
          /\ taskpc = "ready" /\ taskres = "false" => loaded_count = si + 1
          /\ Cardinality(DataSlots) <= si
    /\ AfterLoad => loaded_count = sofaHrtf.M

C19_CounterStep ==
    /\ loaded_count' >= loaded_count
    /\ loaded_count' <= loaded_count + 1
    /\ taskpc = "begin" /\ taskpc' = "body" => loaded_count' = loaded_count + 1
    /\ taskpc = "body" /\ taskpc' /= "body" => loaded_count' = loaded_count

\* C19: the progress counter never decreases and never exceeds M; while the
\* load task runs it is the number of measurements whose processing has
\* started (the number fully processed, or one more while a measurement is
\* in hand), every measurement advances it by one at its start, a dropped
\* one included, and it is M when the task returns success.
C19_ProgressCounter == []C19_Counter /\ [][C19_CounterStep]_vars

\* C19 witness: the task has returned success on a file of which at least
\* one measurement was dropped and one assigned; the counter is M.
C19_Witness ==
    /\ pc = "load_wait" /\ taskpc = "ready" /\ taskres = "true"
    /\ loaded_count = sofaHrtf.M
    /\ sofaHrtf.M >= 2
    /\ DataSlots /= {}
    /\ Cardinality(DataSlots) < sofaHrtf.M

\* the delays are those of the assignment: the onset task has added nothing
BeforeOnsets == pc \in {"load_wait", "validate", "onset"} /\ taskpc /= "init"

C20_Delays ==
    /\ pc = "load_wait" /\ taskpc \in {"init", "begin", "body"} =>
          mIrRate = sofaHrtf.rate
    /\ AfterLoad =>
          mIrRate = IF args.outRate /= 0 THEN args.outRate ELSE sofaHrtf.rate
    /\ BeforeOnsets =>
          \A c \in SlotCoords(mFds) : \A ti \in ChannelSet :
             SlotAt(mFds, c).mDelays[ti] =
                IF HasData(c) THEN FirstDelay(assigned[IndexOf(c)][1], ti)
                ELSE 0

C20_RateStep ==
    mIrRate' /= mIrRate /\ pc /= "start" =>
       /\ pc = "load_wait" /\ taskpc = "begin" /\ si = sofaHrtf.M
       /\ taskpc' = "ready" /\ taskres' = "true"
       /\ mIrRate' = args.outRate
       /\ UNCHANGED <<mFds, mHrirsBase>>

\* C20: every delay written by the assignment is the source delay divided
\* by the source rate: the grid's rate is the source rate for as long as
\* measurements are processed, it is switched to the output rate only when
\* the loop has ended, and the switch leaves the recorded delays as they
\* are.
C20_DelaysAtSourceRate == []C20_Delays /\ [][C20_RateStep]_vars

\* C20 witness: after a resampling load the grid has the output rate and a
\* slot with the non-zero delay of its measurement at the source rate.
C20_Witness ==
    /\ pc = "validate"
    /\ args.outRate /= 0 /\ args.outRate /= sofaHrtf.rate
    /\ mIrRate = args.outRate
    /\ \E c \in DataSlots :
          /\ assigned[IndexOf(c)][1] >= 1
          /\ SlotAt(mFds, c).mDelays[0] =
                DataDelay(assigned[IndexOf(c)][1] * sofaHrtf.R)
                   * (TicksPerSecond \div sofaHrtf.rate)
          /\ SlotAt(mFds, c).mDelays[0] /= 0

\* the declared delay dimensions of the file
DelayDims == ValuesOf(sofaHrtf.delayAttrs, "DIMENSION_LIST")
SourceTicks == TicksPerSecond \div sofaHrtf.rate

C21_AssignStep ==
    pc = "load_wait" /\ taskpc = "body" /\ assigned' /= assigned =>
       \A c \in SlotCoords(mFds) : \A ti \in 0 .. 1 :
          LET old == SlotAt(mFds, c).mDelays[ti]
              new == SlotAt(mFds', c).mDelays[ti]
              hit == assigned'[IndexOf(c)] /= assigned[IndexOf(c)]
          IN  IF ~hit \/ ti >= Channels(mChannelType) THEN new = old
              ELSE IF DelayDims = {"I,R"}
                   THEN new = DataDelay(ti) * SourceTicks
              ELSE IF DelayDims = {"M,R"}
                   THEN new = DataDelay(si * sofaHrtf.R + ti) * SourceTicks
              ELSE new = old

\* C21: the assignment of measurement si writes the delays of the slot's
\* channels ti < channels only: the global delay[ti] with dimensions "I,R",
\* delay[si*R + ti] with "M,R", and nothing when the file declares no delay
\* dimension; the other channel and every other slot keep their delays.
C21_DelaySource == [][C21_AssignStep]_vars

\* C21 witness: a mono grid built from a two-receiver file with "M,R"
\* delays has a slot assigned from a measurement after the first: channel 0
\* has that measurement's delay, channel 1 was not written.
C21_Witness ==
    /\ pc = "load_wait"
    /\ DelayDims = {"M,R"} /\ sofaHrtf.R = 2 /\ mChannelType = "CT_MONO"
    /\ \E c \in DataSlots :
          /\ assigned[IndexOf(c)][1] >= 1
          /\ SlotAt(mFds, c).mDelays[0] =
                DataDelay(assigned[IndexOf(c)][1] * 2) * SourceTicks
          /\ SlotAt(mFds, c).mDelays[1] = 0

\* how many DIMENSION_LIST attributes the delay, rate and IR arrays have
DelayDimCount == CountOf(sofaHrtf.delayAttrs, "DIMENSION_LIST")
SrateDimCount == CountOf(sofaHrtf.srateAttrs, "DIMENSION_LIST")
IrDimCount == CountOf(sofaHrtf.irAttrs, "DIMENSION_LIST")
\* the sizes pass the checks of lines 457-467
SizesFit == args.truncSize <= sofaHrtf.N /\ sofaHrtf.N <= args.fftSize
\* LoadSofaFile has returned false from one of the header checks
AbortedAtHeader ==
    /\ pc \in {"start", "done"}
    /\ pc = "done" => HeaderFailed
    /\ NothingStarted

\* C22: a delay array without DIMENSION_LIST is accepted: in a file with no
\* other fault the header checks pass and the assignment leaves every delay
\* at zero.  A delay array with two DIMENSION_LIST attributes or with one
\* that is neither "I,R" nor "M,R", a sample-rate array without
\* DIMENSION_LIST and an IR array without DIMENSION_LIST make LoadSofaFile
\* return false from the header checks.
C22_DelayDimensions ==
    /\ DelayDimCount = 0 /\ ~FormatError(sofaHrtf) /\ SizesFit =>
          /\ ~HeaderFailed
          /\ BeforeOnsets =>
                \A c \in SlotCoords(mFds) : \A ti \in 0 .. 1 :
                   SlotAt(mFds, c).mDelays[ti] = 0
    /\ \/ DelayDimCount >= 2
       \/ DelayDims \ {"I,R", "M,R"} /= {}
       \/ SrateDimCount = 0
       \/ IrDimCount = 0
       => AbortedAtHeader

\* C22 witness: a file whose delay array has no DIMENSION_LIST was loaded
\* to the end, measurements included.
C22_Witness ==
    /\ DelayDimCount = 0
    /\ retval = "true"
    /\ DataSlots /= {}

\* the load task has not returned true
LoadNotDone ==
    \/ pc = "load_wait" /\ (LoadTaskRunning \/ taskres = "false")
    \/ pc = "done" /\ diag.msg = "Multiple measurements"
\* the least p with p * den >= num
Ceiling(num, den) ==
    CHOOSE p \in 0 .. num : p * den >= num /\ (p - 1) * den < num
\* the impulse length after a load that resamples
RescaledPoints ==
    LET p == Ceiling(sofaHrtf.N * args.outRate, sofaHrtf.rate)
    IN  IF p < mIrSize THEN p ELSE mIrSize

\* C23: until the load task has returned true, and for good when it returns
\* false, the grid's rate and impulse length are the source's.  After it has
\* returned true they are still the source's when outRate is 0 or the
\* source rate; otherwise the rate is outRate and the impulse length is
\* min(ceil(N * outRate / source rate), mIrSize).
C23_OutputRate ==
    /\ LoadNotDone => mIrRate = sofaHrtf.rate /\ mIrPoints = sofaHrtf.N
    /\ AfterLoad =>
          IF args.outRate = 0 \/ args.outRate = sofaHrtf.rate
          THEN mIrRate = sofaHrtf.rate /\ mIrPoints = sofaHrtf.N
          ELSE mIrRate = args.outRate /\ mIrPoints = RescaledPoints

\* C23 witness: a load to a higher rate has returned true with the rescaled
\* length cut to mIrSize.
C23_Witness ==
    /\ pc = "validate"
    /\ args.outRate > sofaHrtf.rate
    /\ mIrRate = args.outRate
    /\ Ceiling(sofaHrtf.N * args.outRate, sofaHrtf.rate) > mIrSize
    /\ mIrPoints = mIrSize

\* the onset task has been started / has processed its last pair
OnsetsStarted == pc = "onset_wait" \/ AfterOnset
OnsetsDone == (pc = "onset_wait" /\ taskpc /= "onset") \/ pc = "magnitude"
\* the (slot, channel) pairs of the rings at or after their field's start
OnsetPairs ==
    {<<c, ti>> : c \in {d \in SlotCoords(mFds) : ~BelowStart(d)},
                 ti \in ChannelSet}
\* the onset of the response in the region of slot c, channel ti
OnsetOf(c, ti) ==
    CalcHrirOnset(mIrRate,
                  SpanData(mHrirsBase,
                           SlotSpan(mIrCount, mIrSize, IndexOf(c), ti)),
                  mIrPoints)

C24_Onsets ==
    /\ OnsetsStarted =>
          /\ hrir_total = Cardinality(OnsetPairs)
          /\ DOMAIN onsets = 0 .. hrir_total - 1
          /\ \A k \in DOMAIN onsets :
                Len(onsets[k]) = IF k < hrir_done THEN 1 ELSE 0
          /\ hrir_done <= hrir_total
          /\ \A c \in SlotCoords(mFds) : \A ti \in 0 .. 1 :
                BelowStart(c) \/ ti \notin ChannelSet =>
                   SlotAt(mFds, c).mDelays[ti] = 0
    /\ OnsetsDone =>
          /\ hrir_done = hrir_total
          /\ \A p \in OnsetPairs :
                SlotAt(mFds, p[1]).mDelays[p[2]] =
                   FirstDelay(assigned[IndexOf(p[1])][1], p[2])
                      + OnsetOf(p[1], p[2])
    /\ PoolBuilt => Size(mIrs) = hrir_total /\ hrir_done = hrir_total

C24_OnsetStep ==
    /\ hrir_done' /= hrir_done /\ pc = "onset_wait" =>
          /\ hrir_done' = hrir_done + 1
          /\ \E p \in OnsetPairs :
                /\ SlotAt(mFds', p[1]).mDelays[p[2]] =
                      SlotAt(mFds, p[1]).mDelays[p[2]] + OnsetOf(p[1], p[2])
                /\ \A c \in SlotCoords(mFds) : \A ti \in 0 .. 1 :
                      <<c, ti>> /= p =>
                         SlotAt(mFds', c).mDelays[ti] =
                            SlotAt(mFds, c).mDelays[ti]
    /\ AfterOnset => mFds' = mFds

\* C24: the onset task takes the (slot, channel) pairs of the rings at or
\* after the start ring one per step, adding the pair's onset to its delay
\* and 1 to the progress counter; every pair is taken exactly once, the
\* delays of the rings below the start ring stay as they were, and at the
\* end the counter equals the announced total, the number of those pairs,
\* which is the length of the magnitude work list; nothing changes a delay
\* afterwards.
C24_OnsetOnce == []C24_Onsets /\ [][C24_OnsetStep]_vars

\* C24 witness: the onset task has finished on a grid with a ring below the
\* start ring, and a delay of the assignment has grown by a non-zero onset.
C24_Witness ==
    /\ pc = "magnitude"
    /\ hrir_done = hrir_total /\ hrir_total >= 2
    /\ \E c \in SlotCoords(mFds) : BelowStart(c)
    /\ \E p \in OnsetPairs :
          /\ FirstDelay(assigned[IndexOf(p[1])][1], p[2]) > 0
          /\ OnsetOf(p[1], p[2]) > 0
          /\ SlotAt(mFds, p[1]).mDelays[p[2]] >
                FirstDelay(assigned[IndexOf(p[1])][1], p[2])

\* lines 468-470 have run
Sized == pc /= "start" /\ mIrSize /= 0

\* C25: a file with N > fftSize or N < truncSize is refused by the header
\* checks.  Once the sizes are set, mIrSize is the larger of fftSize/2 + 1
\* and N, and in every later state the impulse length is at most mIrSize
\* and at most the FFT size, and fftSize/2 + 1 is at most mIrSize; every
\* region of the magnitude work list has mIrSize samples, so the mIrPoints
\* samples read from it and the fftSize/2 + 1 magnitudes written to it lie
\* inside it.
C25_SizeBounds ==
    /\ ~SizesFit => AbortedAtHeader
    /\ pc \notin {"start", "done"} => Sized /\ SizesFit
    /\ Sized =>
          /\ mFftSize = args.fftSize
          /\ mIrSize = IF sofaHrtf.N > args.fftSize \div 2 + 1
                       THEN sofaHrtf.N ELSE args.fftSize \div 2 + 1
          /\ mIrPoints <= mIrSize
          /\ mIrPoints <= mFftSize
          /\ mFftSize \div 2 + 1 <= mIrSize
    /\ PoolBuilt =>
          \A k \in DOMAIN mIrs :
             /\ mIrs[k].len = mIrSize
             /\ mIrs[k].off + mIrs[k].len <= Size(mHrirsBase)

\* C25 witness: a worker has computed a magnitude after a resampling load
\* whose rescaled length was cut to mIrSize.
C25_Witness ==
    /\ MagnitudeRan
    /\ args.outRate > sofaHrtf.rate
    /\ sofaHrtf.N * args.outRate > mIrSize * sofaHrtf.rate
    /\ mIrPoints = mIrSize

\* the monitor loop of lines 601-608 has been entered with no worker thread
\* and a work list that is not empty
NoWorkerPool == PoolBuilt /\ args.numThreads = 0 /\ Size(mIrs) > 0

C26_Stuck ==
    NoWorkerPool =>
       /\ pc = "mag_poll" /\ retval = "none"
       /\ mDone = 0 /\ mCurrent = 0 /\ created = 0
       /\ \A w \in Workers : wpc[w] = "none"

C26_ExitStep ==
    pc = "mag_poll" /\ pc' /= "mag_poll" =>
       mDone = Size(mIrs) /\ pc' = "join"

\* C26: the monitor loop is left only by a poll that reads a completed
\* count equal to the length of the work list.  With numThreads = 0 and a
\* non-empty work list there is no worker, the count stays 0, and the
\* calling thread is in the loop in every later state: LoadSofaFile does
\* not return.
C26_MonitorLoop == []C26_Stuck /\ [][C26_ExitStep]_vars

\* C26 witness: the calling thread polls a non-empty work list with no
\* worker thread configured.
C26_Witness ==
    /\ pc = "mag_poll"
    /\ args.numThreads = 0
    /\ Size(mIrs) >= 2
    /\ mDone = 0

\* the items CalcHrirMagnitude has been run on
ProcessedItems == {k \in DOMAIN procCount : procCount[k] >= 1}
\* the workers between their exchange and their count
Claimants == {w \in Workers : wpc[w] \in {"calc", "count"}}
Counting == {w \in Workers : wpc[w] = "count"}

C27_Counters ==
    PoolBuilt =>
       /\ mDone <= mCurrent
       /\ mCurrent <= Size(mIrs)
       /\ mCurrent = mDone + Cardinality(Claimants)
       /\ mDone + Cardinality(Counting) = Cardinality(ProcessedItems)

C27_CounterStep ==
    PoolBuilt =>
       /\ mCurrent' /= mCurrent =>
             /\ mCurrent' = mCurrent + 1
             /\ mCurrent < Size(mIrs)
             /\ mDone' = mDone
             /\ \E w \in Workers :
                   wpc[w] = "cas" /\ idx[w] = mCurrent /\ wpc'[w] = "calc"
       /\ mDone' /= mDone =>
             /\ mDone' = mDone + 1
             /\ mCurrent' = mCurrent
             /\ \E w \in Workers :
                   /\ wpc[w] = "count" /\ wpc'[w] = "load"
                   /\ procCount[idx[w]] = 1

\* C27: in the worker pool, completed count <= cursor <= length of the work
\* list in every state.  The cursor changes only by a successful exchange
\* from a value below the length to that value plus one; the completed
\* counter changes only by one, in the step of a worker that has already
\* run CalcHrirMagnitude on the item it claimed.
C27_CursorBounds == []C27_Counters /\ [][C27_CounterStep]_vars

\* C27 witness: one item is completed and counted while two workers hold
\* the next two.
C27_Witness ==
    /\ pc = "mag_poll"
    /\ mDone >= 1
    /\ mCurrent = mDone + 2
    /\ Cardinality(Claimants) = 2

\* the slots whose FreeMask bit is clear, and the IDs of the filters in them
LiveSlots(list) ==
    UNION {{[lidx |-> l, slidx |-> b] : b \in Bits \ list[l].FreeMask} :
           l \in DOMAIN list}
IdAt(list, p) == list[p.lidx].Filters[p.slidx].id
LiveIds(list) == {IdAt(list, p) : p \in LiveSlots(list)}
\* the step is a call of op that was given n > 0 and raised no error
Succeeds(op) ==
    /\ calls' = calls + 1 /\ call'.op = op
    /\ call'.n > 0 /\ call'.raised = "AL_NO_ERROR"

C28_LiveIds ==
    LET live == LiveSlots(FilterList)
    IN  /\ \A p \in live :
              /\ IdAt(FilterList, p) /= 0
              /\ IdAt(FilterList, p) = SubListSize * p.lidx + p.slidx + 1
        /\ Cardinality(LiveIds(FilterList)) = Cardinality(live)

C28_GenStep ==
    Succeeds("alGenFilters") =>
       LET got == {call'.out[i] : i \in DOMAIN call'.out}
       IN  /\ Len(call'.out) = call'.n
           /\ Cardinality(got) = call'.n
           /\ got \cap LiveIds(FilterList) = {}
           /\ got \subseteq LiveIds(FilterList')

\* C28: in every state the filters in slots whose FreeMask bit is clear have
\* non-zero, pairwise distinct IDs, each SubListSize * sublist + bit + 1 of
\* its own slot; an alGenFilters(n) that raises no error returns n distinct
\* IDs that were not live before the call and are live after it.
C28_DistinctIds == []C28_LiveIds /\ [][C28_GenStep]_vars

\* C28 witness: after a deletion, alGenFilters(3) has returned the freed ID
\* and two IDs on either side of a sublist boundary.
C28_Witness ==
    /\ call.op = "alGenFilters"
    /\ call.out = <<2, SubListSize, SubListSize + 1>>
    /\ Size(FilterList) = 2
    /\ LiveIds(FilterList) = 1 .. SubListSize + 1

\* the step is a call of alDeleteFilters with n > 0
DeleteCall ==
    calls' = calls + 1 /\ call'.op = "alDeleteFilters" /\ call'.n > 0
\* the filter objects, by ID
LiveFilters(list) ==
    {list[p.lidx].Filters[p.slidx] : p \in LiveSlots(list)}

C29_DeleteStep ==
    DeleteCall =>
       LET ids == {call'.fids[i] : i \in DOMAIN call'.fids} \ {0}
           live == LiveIds(FilterList)
       IN  IF ids \ live /= {}
           THEN /\ call'.raised = "AL_INVALID_NAME"
                /\ call'.freed = << >>
                /\ FilterList' = FilterList
                /\ mFilterNames' = mFilterNames
           ELSE /\ call'.raised = "AL_NO_ERROR"
                /\ {call'.freed[i] : i \in DOMAIN call'.freed} = ids
                /\ Len(call'.freed) = Cardinality(ids)
                /\ LiveIds(FilterList') = live \ ids
                /\ LiveFilters(FilterList') =
                      {f \in LiveFilters(FilterList) : f.id \notin ids}
                /\ mFilterNames' = {nm \in mFilterNames : nm.id \notin ids}

\* C29: an alDeleteFilters call whose list has a non-zero ID that is not a
\* live filter raises AL_INVALID_NAME and changes nothing; otherwise it
\* raises nothing and calls FreeFilter exactly once for every distinct
\* non-zero ID of the list, zeros and repetitions being skipped: those
\* filters and their names are gone, every other filter is as it was.
C29_DeleteAllOrNothing == [][C29_DeleteStep]_vars

\* C29 witness: a list that names the same live filter twice was
\* deleted with one FreeFilter call.
C29_Witness ==
    /\ call.op = "alDeleteFilters"
    /\ call.fids = <<1, 1>>
    /\ call.raised = "AL_NO_ERROR"
    /\ call.freed = <<1>>
    /\ 1 \notin LiveIds(FilterList)
    /\ LiveIds(FilterList) /= {}

\* the step is a call of alGenFilters
GenCall == calls' = calls + 1 /\ call'.op = "alGenFilters"
\* the slots of the list that hold no filter
FreeSlots(list) == Size(list) * SubListSize - Cardinality(LiveSlots(list))
\* n slots cannot be had: the free ones and those of the sublists the
\* allocator can still provide are fewer
OutOfSlots(n, avail) == n > FreeSlots(FilterList) + avail * SubListSize

\* no AllocFilter was called on a list without a free slot
C30_Defined == ~ub

C30_GenStep ==
    GenCall =>
       LET n == call'.n
           before == LiveFilters(FilterList)
           after == LiveFilters(FilterList')
       IN  IF n < 0
           THEN /\ call'.raised = "AL_INVALID_VALUE"
                /\ FilterList' = FilterList /\ call'.out = << >>
           ELSE IF n = 0
           THEN /\ call'.raised = "AL_NO_ERROR"
                /\ FilterList' = FilterList /\ call'.out = << >>
           ELSE IF OutOfSlots(n, call'.avail)
           THEN /\ call'.raised = "AL_OUT_OF_MEMORY"
                /\ after = before /\ call'.out = << >>
                /\ LiveSlots(FilterList') = LiveSlots(FilterList)
           ELSE /\ call'.raised = "AL_NO_ERROR"
                /\ ~ub'
                /\ before \subseteq after
                /\ Cardinality(after) = Cardinality(before) + n
                /\ \A f \in after \ before : f.type = "AL_FILTER_NULL"

\* C30: alGenFilters(n) with n < 0 raises AL_INVALID_VALUE, with n = 0
\* raises nothing, and with fewer than n slots to be had raises
\* AL_OUT_OF_MEMORY; in all three no filter becomes live and the live
\* filters are as they were.  In every other call each AllocFilter finds a
\* free slot (no call runs into undefined behaviour), exactly n filters
\* become live, of the null type, and the others are as they were.
C30_GenAllOrNothing == []C30_Defined /\ [][C30_GenStep]_vars

\* C30 witness: on a device that has sublists but too few free slots, and
\* no memory for another sublist, alGenFilters(2) has raised
\* AL_OUT_OF_MEMORY.
C30_Witness ==
    /\ call.op = "alGenFilters"
    /\ call.n = 2 /\ call.avail = 0
    /\ call.raised = "AL_OUT_OF_MEMORY"
    /\ Size(FilterList) = 1
    /\ FreeSlots(FilterList) = 1

\* ---- C31
\* the IDs the lifetime of which is followed: the first and the last of the
\* first sublists, and those next to them
ProbeIds ==
    IdPool \cup {3, SubListSize - 1, SubListSize + 2, 2 * SubListSize,
                 2 * SubListSize + 1, 3 * SubListSize + 1}
QueryCall == calls' = calls + 1 /\ call'.op = "alIsFilter"
\* the answer alIsFilter gives for id on the list
Reports(list, id) == IsFilter(list, id)

\* a query answers true exactly for 0 and for the IDs of the live filters,
\* and changes neither the list nor the names
C31_QueryStep ==
    QueryCall =>
       /\ call'.out = <<(call'.fids[1] = 0
                          \/ call'.fids[1] \in LiveIds(FilterList))>>
       /\ UNCHANGED <<FilterList, mFilterNames>>
\* what a query would answer changes only by a generate call that returns
\* the ID (to true) and by a delete call that was given it (to false)
C31_LifetimeStep ==
    /\ Succeeds("alGenFilters") =>
          \A i \in DOMAIN call'.out : Reports(FilterList', call'.out[i])
    /\ Succeeds("alDeleteFilters") =>
          \A i \in DOMAIN call'.fids :
             call'.fids[i] /= 0 => ~Reports(FilterList', call'.fids[i])
    /\ \A id \in ProbeIds :
          /\ Reports(FilterList, id) /\ ~Reports(FilterList', id) =>
                /\ Succeeds("alDeleteFilters")
                /\ \E i \in DOMAIN call'.fids : call'.fids[i] = id
          /\ ~Reports(FilterList, id) /\ Reports(FilterList', id) =>
                /\ Succeeds("alGenFilters")
                /\ \E i \in DOMAIN call'.out : call'.out[i] = id
\* the IDs of sublists the list does not have are not filters
C31_Unallocated ==
    \A id \in ProbeIds \ {0} :
       SlotOf(id).lidx >= Size(FilterList) => ~Reports(FilterList, id)
\* C31: alIsFilter(id) returns true exactly when id is 0 or the ID of a live
\* filter: an ID that alGenFilters returned is reported true until it is
\* deleted, false from its deletion until it is generated again, and the
\* IDs of sublists that were never allocated are reported false.
C31_IsFilterExact ==
    /\ [][C31_QueryStep /\ C31_LifetimeStep]_vars
    /\ []C31_Unallocated
\* ID 1 was live and has been deleted, and the query answered false
C31_Witness ==
    /\ call.op = "alIsFilter"
    /\ call.fids = <<1>>
    /\ call.out = <<FALSE>>
    /\ Size(FilterList) >= 1

\* ---- C34
\* the keys of the name table
NamedIds(names) == {nm.id : nm \in names}
NameCall == calls' = calls + 1 /\ call'.op = "SetName"

\* every key of the name table is the ID of a live filter, and an ID has
\* at most one name
C34_NamesLive ==
    /\ NamedIds(mFilterNames) \subseteq LiveIds(FilterList)
    /\ \A a, b \in mFilterNames : a.id = b.id => a = b
\* SetName on an ID that is not live raises AL_INVALID_NAME and leaves the
\* table as it was; on a live ID it names that filter and no other
C34_SetNameStep ==
    NameCall =>
       LET id == call'.fids[1]
       IN  IF id \in LiveIds(FilterList)
           THEN /\ call'.raised = "AL_NO_ERROR"
                /\ NamedIds(mFilterNames') = NamedIds(mFilterNames) \cup {id}
           ELSE /\ call'.raised = "AL_INVALID_NAME"
                /\ mFilterNames' = mFilterNames
\* a delete call removes the names of the filters it frees and no other,
\* and the IDs a generate call returns have no name
C34_LifetimeStep ==
    /\ DeleteCall =>
          mFilterNames' =
             {nm \in mFilterNames :
                 \A i \in DOMAIN call'.freed : call'.freed[i] /= nm.id}
    /\ GenCall =>
          /\ mFilterNames' = mFilterNames
          /\ \A i \in DOMAIN call'.out :
                call'.out[i] \notin NamedIds(mFilterNames')
\* C34: the name table only ever holds names of live filters: SetName on an
\* ID that is not live raises AL_INVALID_NAME without changing the table,
\* deleting a filter removes its name, so every key of the table is a live
\* filter ID and a regenerated ID starts without a name.
C34_NamesOfLiveFilters ==
    /\ []C34_NamesLive
    /\ [][C34_SetNameStep /\ C34_LifetimeStep]_vars
\* ID 1 has been freed and generated again, the list is full: the ID is
\* live and has no name
C34_Witness ==
    /\ call.op = "alGenFilters"
    /\ \E i \in DOMAIN call.out : call.out[i] = 1
    /\ Size(FilterList) = 1
    /\ Cardinality(FilterList[0].FreeMask) = 0
    /\ 1 \notin NamedIds(mFilterNames)

\* ---- C33
TypeCall == calls' = calls + 1 /\ call'.op = "alFilteri"
\* the parameters the claim gives a type: its default gains where efx.h
\* names one and 1.0 elsewhere, and the two reference frequencies
TypeDefaults ==
    [AL_FILTER_NULL |->
        [Gain |-> "1.0f", GainHF |-> "1.0f", GainLF |-> "1.0f"],
     AL_FILTER_LOWPASS |->
        [Gain |-> "AL_LOWPASS_DEFAULT_GAIN",
         GainHF |-> "AL_LOWPASS_DEFAULT_GAINHF", GainLF |-> "1.0f"],
     AL_FILTER_HIGHPASS |->
        [Gain |-> "AL_HIGHPASS_DEFAULT_GAIN", GainHF |-> "1.0f",
         GainLF |-> "AL_HIGHPASS_DEFAULT_GAINLF"],
     AL_FILTER_BANDPASS |->
        [Gain |-> "AL_BANDPASS_DEFAULT_GAIN",
         GainHF |-> "AL_BANDPASS_DEFAULT_GAINHF",
         GainLF |-> "AL_BANDPASS_DEFAULT_GAINLF"]]
\* the filter id as a type change to t leaves it
Reset(id, t) ==
    [id |-> id, type |-> t, Gain |-> TypeDefaults[t].Gain,
     GainHF |-> TypeDefaults[t].GainHF, HFReference |-> "LowPassFreqRef",
     GainLF |-> TypeDefaults[t].GainLF, LFReference |-> "HighPassFreqRef"]

C33_TypeStep ==
    TypeCall =>
       LET id == call'.fids[1]
           t == call'.value
           live == id \in LiveIds(FilterList)
       IN  /\ call'.raised =
                 IF ~live THEN "AL_INVALID_NAME"
                 ELSE IF t \notin FilterTypes THEN "AL_INVALID_VALUE"
                 ELSE "AL_NO_ERROR"
           /\ IF call'.raised = "AL_NO_ERROR"
              THEN /\ LiveSlots(FilterList') = LiveSlots(FilterList)
                   /\ \A p \in LiveSlots(FilterList) :
                         FilterList'[p.lidx].Filters[p.slidx] =
                            IF IdAt(FilterList, p) = id THEN Reset(id, t)
                            ELSE FilterList[p.lidx].Filters[p.slidx]
              ELSE FilterList' = FilterList
           /\ UNCHANGED mFilterNames
\* C33: setting AL_FILTER_TYPE on a live filter to null, low-pass,
\* high-pass or band-pass sets the type and resets gain, gain-HF, gain-LF
\* and both reference frequencies to the defaults of the type, whatever
\* they were; an invalid type raises AL_INVALID_VALUE and an ID that is not
\* live AL_INVALID_NAME, and then no filter's type or parameter changes.
C33_TypeResets == [][C33_TypeStep]_vars
\* filter 1 was a low-pass filter with a gain set by alFilterf and has been
\* made a high-pass filter: it has the high-pass defaults
C33_Witness ==
    /\ call.op = "alFilteri"
    /\ call.fids = <<1>>
    /\ call.value = "AL_FILTER_HIGHPASS"
    /\ call.raised = "AL_NO_ERROR"
    /\ calls = MaxCalls
    /\ {f \in LiveFilters(FilterList) : f.id = 1}
          = {Reset(1, "AL_FILTER_HIGHPASS")}

\* ---- C37
\* 2^31 as an ALuint
TopBit == [hi |-> Half \div 2, lo |-> 0]
\* v <= 2^31
UpToTopBit(v) == v.hi < TopBit.hi \/ v = TopBit

\* the list never has more than 1<<25 sublists, so the sublist index of
\* ID 0, 2^26 - 1, is beyond it
C37_ZeroBeyondList ==
    /\ listSize <= MaxSubLists
    /\ SlotOf32(Zero32) =
          [lidx |-> 2 ^ (IdBits - 6) - 1, slidx |-> SubListSize - 1]
    /\ SlotOf32(Zero32) = SlotOf(0)
    /\ SlotOf32(Zero32).lidx >= listSize
    /\ Lookup32(listSize, Zero32) = "nullptr"
    /\ idCall.op = "lookup" /\ idCall.id = Zero32 =>
          idCall.found = "nullptr"
\* an issued ID is not 0, is at most 2^31 and leads back to its slot; the
\* last slot of the last sublist gets 2^31
C37_IdsFit ==
    /\ MakeId(MaxSubLists - 1, SubListSize - 1) = TopBit
    /\ idCall.op = "alloc" =>
          /\ idCall.id /= Zero32
          /\ UpToTopBit(idCall.id)
          /\ SlotOf32(idCall.id) =
                [lidx |-> idCall.lidx, slidx |-> idCall.slidx]
\* C37: filter ID 0 never resolves to a filter and IDs never overflow 32
\* bits: (0 - 1) >> 6 is 2^26 - 1 in unsigned 32-bit arithmetic, which is
\* at or beyond the sublist count because EnsureFilters does not grow the
\* list beyond 2^25 sublists, and the largest ID issued,
\* ((2^25 - 1) << 6 | 63) + 1 = 2^31, fits an unsigned 32-bit ID.
C37_IdsIn32Bits == C37_ZeroBeyondList /\ C37_IdsFit
\* the list has grown to 2^25 sublists and ID 0 has been looked up in it
C37_Witness ==
    /\ listSize = MaxSubLists
    /\ idCall.op = "lookup"
    /\ idCall.id = Zero32
    /\ idCall.found = "nullptr"
    /\ idCall.steps >= 2

\* ---- C32
\* the threads one of whose lock_guards holds the lock, and how many of a
\* thread's do
HeldBy(t) == {i \in DOMAIN thr[t] : thr[t][i].holds}
Holders == {t \in Callers : HeldBy(t) /= {}}

\* at most one thread is between its lock and its unlock, the mutex is
\* owned by exactly that thread, a thread that is about to read or write
\* the table owns it, one that is in no filter function does not, and no
\* thread has locked the mutex twice
C32_Exclusive ==
    /\ Cardinality(Holders) <= 1
    /\ \A t \in Callers :
          /\ t \in Holders <=> FilterLock = t
          /\ Cardinality(HeldBy(t)) <= 1
          /\ NextEvent(t) = "access" => FilterLock = t
          /\ thr[t] = << >> => FilterLock /= t
    /\ Holders = {} <=> FilterLock = 0
    /\ ~relock
\* a function that leaves, by return or by exception, with the lock held
\* by its lock_guard leaves it free, and no other step frees it
C32_ReleaseStep ==
    \A t \in Callers :
       /\ Len(thr'[t]) < Len(thr[t]) /\ Top(t).holds => FilterLock' = 0
       /\ FilterLock = t /\ FilterLock' /= t =>
             Len(thr'[t]) < Len(thr[t]) /\ Top(t).holds
\* C32: filter operations are mutually exclusive and never self-deadlock:
\* every operation that reads or changes the filter table holds FilterLock
\* while it does, releases it on every exit path, errors included, and none
\* acquires it while holding it (alFilteriv and alGetFilteriv pass
\* AL_FILTER_TYPE to alFilteri and alGetFilteri before taking the lock).
C32_LockDiscipline ==
    /\ []C32_Exclusive
    /\ [][C32_ReleaseStep]_vars
\* thread 1 is in alFilteri, called by alFilteriv, and holds the lock while
\* an exception leaves the function; thread 2 waits for the lock
C32_Witness ==
    /\ Len(thr[1]) = 2
    /\ thr[1][1].fn = "alFilteriv"
    /\ Top(1).fn = "alFilteri" /\ Top(1).holds /\ Top(1).threw
    /\ FilterLock = 1
    /\ NextEvent(2) = "lock"

\* ---- C35
\* the mixer thread exists and has not returned
MixerRuns == mpc \notin {"none", "done"}

\* a backend that was never started has no thread and was never drained;
\* while it is started nothing is drained, and stop() is past its test
\* only then, with the flag set; once stop() has returned after a start
\* the thread has returned and been joined and the device was drained once
C35_Phases ==
    /\ phase = "never" =>
          mThread = "empty" /\ mpc = "none" /\ drains = 0
          /\ lastStop /= "joined"
    /\ phase = "started" =>
          drains = 0 /\ (cpc \in {"idle", "join"} => mThread = "joinable")
    /\ phase = "stopped" =>
          mThread = "empty" /\ mpc = "done" /\ drains = 1 /\ cpc = "idle"
    /\ cpc \in {"join", "drain"} => phase = "started" /\ mKillNow
\* on a backend that is not started no step but a start that creates the
\* thread changes the thread, the mixer, the drains or the caller's place;
\* a stop() that returns at once is on such a backend, one that returns
\* after the join finds the thread returned and drains once
C35_StopStep ==
    /\ phase /= "started" /\ phase' /= "started" =>
          UNCHANGED <<mThread, mpc, buffer, drains, cpc, Connected>>
    /\ lastStop' /= lastStop /\ lastStop' = "no-op" =>
          /\ phase /= "started"
          /\ mKillNow'
          /\ UNCHANGED <<mThread, mpc, buffer, drains, cpc, Connected, phase>>
    /\ cpc = "drain" /\ cpc' = "idle" =>
          /\ lastStop' = "joined"
          /\ mpc = "done" /\ mThread = "empty"
          /\ drains' = 1
    /\ cpc = "join" /\ cpc' /= "join" => mpc = "done"
\* C35: stop() does nothing when the backend was never started or has
\* already been stopped (the kill flag starts set and the first stop sets
\* it atomically), and when stop() returns after a start() the mixer
\* thread has terminated and the device has been drained exactly once for
\* that start.
C35_StartStop ==
    /\ []C35_Phases
    /\ [][C35_StopStep]_vars
\* the backend was started and stopped, and a second stop() has returned
\* at once: one drain, no thread
C35_Witness ==
    /\ phase = "stopped"
    /\ lastStop = "no-op"
    /\ drains = 1
    /\ mKillNow

\* ---- C36
C36_KillExits == (mKillNow /\ MixerRuns) ~> (mpc = "done")
C36_DisconnectExits ==
    (~Connected /\ MixerRuns) ~> (mpc = "done" \/ terminated)
C36_JoinReturns == (cpc = "join") ~> (cpc = "idle" /\ lastStop = "joined")
\* C36: the mixer thread exits once the kill flag is set or the device is
\* disconnected: the render loop and the write loop test the flag on every
\* pass, so poll timeouts, EINTR and EAGAIN results and partial or blocked
\* writes do not keep the thread running after stop() has set the flag,
\* and stop()'s join returns.
C36_MixerExits ==
    /\ C36_KillExits
    /\ C36_DisconnectExits
    /\ C36_JoinReturns
\* stop() has set the flag and waits in its join while the mixer thread is
\* in a write with bytes left
C36_Witness ==
    /\ cpc = "join"
    /\ mKillNow
    /\ mpc = "write"
    /\ buffer > 0

====
